---------------------------- MODULE Spec2Model ----------------------------
(***************************************************************************)
(* Game-Hub input unification: HubControls v4 (public/hub-controls.js),    *)
(* its per-framework adapters (public/adapters/*.js).                      *)
(*                                                                         *)
(* Conventions of the model                                                *)
(*  - An analog value is an integer number of hundredths: 0.15 is 15,      *)
(*    1 is 100, -0.8 is -80.                                               *)
(*  - A JavaScript map from names to booleans is the set of the names      *)
(*    whose value is truthy; a missing key (undefined) and false are both  *)
(*    "not in the set", which is how every reader of these maps treats     *)
(*    them (|| false, &&, !, if).                                          *)
(***************************************************************************)
EXTENDS Integers, Sequences, FiniteSets

(***************************************************************************)
(* Bounds of the environment.                                              *)
(***************************************************************************)
\* The environment presses the first NumPadButtons buttons of PadButtonOrder.
NumPadButtons == 1
\* The environment touches the first NumTouchButtons buttons of TouchOrder.
NumTouchButtons == 1
\* Stick values are the first NumAxisValues values of AxisOrder.
NumAxisValues == 7
\* The environment presses the first NumKeys keys of KeyOrder.
NumKeys == 1
\* The page calls init at most MaxInits times.
MaxInits == 2
\* The menu shows the first NumGames cards of GameOrder.
NumGames == 3

(***************************************************************************)
(* Vocabulary.                                                             *)
(***************************************************************************)
\* hub-controls.js:252  "Button name: a, b, x, y, start, select, lb, rb, lt, rt"
Buttons == {"a", "b", "x", "y", "start", "select", "lb", "rb", "lt", "rt"}

\* The keys of the buttons object returned by getState().
StateButtons == Buttons \cup {"l3", "r3"}

\* Standard layout: index i of gp.buttons is PadLayout[i + 1].
PadLayout ==
  << "a", "b", "x", "y", "lb", "rb", "lt", "rt", "select", "start",
     "l3", "r3", "up", "down", "left", "right" >>

PadButtonNames == {PadLayout[i] : i \in 1..Len(PadLayout)}

\* The touch controls created by init on a touch device.
TouchNames == {"up", "down", "left", "right", "a", "b", "start"}

Slots == 0..3

\* The slots the platform gives to the one device of the environment.
EnvSlots == {0, 1}

\* null is the empty tuple and a non-null object v the tuple <<v>>.
Null == << >>
Some(v) == << v >>
The(o) == o[1]

\* Order in which the bounds above admit buttons to the environment.
PadButtonOrder ==
  << "a", "lt", "start", "x", "b", "y", "select", "lb", "rb", "rt",
     "l3", "r3", "up", "down", "left", "right" >>

TouchOrder == << "start", "a", "b", "left", "right", "up", "down" >>

Min(a, b) == IF a < b THEN a ELSE b

EnvPadButtons ==
  {PadButtonOrder[i] : i \in 1..Min(NumPadButtons, Len(PadButtonOrder))}

\* Stick values in hundredths: neutral, the deadzone and the first value
\* beyond it on both sides, and larger deflections.
AxisOrder == << 0, 15, -15, 16, -16, 50, -80, 100, -100, 10, -10, 14 >>

AxisValues ==
  {AxisOrder[i] : i \in 1..Min(NumAxisValues, Len(AxisOrder))}

\* Keyboard keys by their KeyboardEvent.code.
KeyOrder ==
  << "KeyA", "KeyJ", "KeyD", "Space", "Tab", "KeyI", "KeyK", "KeyL", "KeyW",
     "KeyS", "ArrowLeft", "ArrowRight", "ArrowUp", "ArrowDown", "Enter",
     "Escape", "KeyU", "KeyQ", "KeyE", "ShiftLeft" >>

EnvKeys == {KeyOrder[i] : i \in 1..Min(NumKeys, Len(KeyOrder))}

\* The ids of the cards of the menu, in the order of the HubScene constructor.
GameOrder ==
  << "nageex", "island-crisis-3d", "island-crisis-2d", "thumb-game",
     "wario-clone" >>

GameIds == SubSeq(GameOrder, 1, Min(NumGames, Len(GameOrder)))

EnvTouchButtons ==
  {TouchOrder[i] : i \in 1..Min(NumTouchButtons, Len(TouchOrder))}

\* this.deadzone, in hundredths.
deadzone == 15

VARIABLES
  \* ---- the platform ----
  gamepads,            \* navigator.getGamepads(): slot -> Null or a device
  events,              \* gamepad events queued by the platform, oldest first
  \* ---- HubControls ----
  enabled,             \* HubControls.enabled
  isTouch,             \* HubControls.isTouch
  container,           \* HubControls.container is a DOM node (TRUE) or null
  pollLoops,           \* requestAnimationFrame polling loops running
  state,               \* HubControls.state: the touch press map
  gamepadState,        \* HubControls.gamepadState
  prevGamepadButtons,  \* HubControls.prevGamepadButtons
  prevEdge,            \* the names b with this['_prev_' + b] truthy
  prevDirEdge,         \* the directions d with this['_prev_dir_' + d] truthy
  styles,              \* the style element #hub-controls-styles is in the page
  initOptions,         \* options.deadzone as the page passed it to init, or
                       \* Null when init has not run or got no such option
  touchLog,            \* the latest touch event <<type, control>> as an
                       \* observer of the page recorded it; Null in a page
                       \* without that observer
  \* ---- the menu's InputManager ----
  inputManager,        \* InputManager.gamepadState and .prevGamepadButtons
  \* ---- a consumer polling HubControls once per animation frame ----
  usage,               \* the calls the consumer makes per button and frame
  seenNow,             \* getState().buttons in the consumer's latest frame
  seenBefore,          \* getState().buttons in the frame before it
  snapshot,            \* what the latest getState() call returned, or Null
  results,             \* per call of the usage, in call order: the buttons for
                       \* which that call returned true in the latest frame
  \* ---- a Layer 2 adapter and the game that polls it ----
  adapter,             \* "phaser", "three" or "generic": the adapter of the page
  keys,                \* the keyboard keys that are down
  prevButtons,         \* the names n with adapter._prevButtons[n] truthy
  inputNow,            \* the truthy fields of getInput() in the latest frame
  inputBefore,         \* the same in the frame before it
  fired,               \* the names for which justPressed returned true in the
                       \* latest frame, or Null before the first frame
  input,               \* what the game's latest getInput() call returned, or
                       \* Null before the first call
  analog,              \* what its latest getAnalog() call returned, or Null
  \* ---- the menu page: VirtualControls, InputManager, HubScene ----
  virtualControls,     \* VirtualControls: enabled, dpadState, buttonState
  touchState,          \* InputManager.touchState
  menuPrev,            \* the actions a with InputManager['_prev_' + a] truthy
  hubScene,            \* HubScene: selectedIndex, selectCooldown,
                       \* isTransitioning, transitionAlpha
  games,               \* HubScene.games: the cards, each with id and lastUpdate
  fetchState,          \* fetchDeploymentDates: the await it is at, or done,
                       \* and what its catch block caught, if anything
  rendered,            \* the date labels of the cards as render() drew them
                       \* last, or Null before the first frame
  sinceMove,           \* a stopwatch beside the loop: the dt accumulated since
                       \* the latest frame that changed selectedIndex, read up
                       \* to SelectCooldown; Null before the first change
  timers,              \* the URLs of the setTimeout callbacks still to run
  location,            \* the URLs passed to window.location.assign, or
                       \* assigned to window.location.href, in order
  loopFrame,           \* Null between two calls of gameLoop; inside a call,
                       \* the <<action, value>> pairs of the justPressed calls
                       \* made so far and what they returned
  \* ---- touch points ----
  touchPoints,         \* per control, the touch points that started on it
                       \* and have neither ended nor been cancelled, in a
                       \* page that is touched with several fingers; Null in
                       \* a page touched with one finger at a time
  \* ---- the serverless function /api/deployments ----
  token,               \* process.env.VERCEL_API_TOKEN is set
  upstream,            \* per project, what the upstream API does with the
                       \* lookups of that project
  responses            \* the responses the handler has sent, in order

vars ==
  << gamepads, events, enabled, isTouch, container, pollLoops, state,
     gamepadState, prevGamepadButtons, prevEdge, prevDirEdge, styles,
     initOptions, touchLog, inputManager,
     usage, seenNow, seenBefore, snapshot, results,
     adapter, keys, prevButtons, inputNow, inputBefore, fired, input, analog,
     virtualControls, touchState, menuPrev, hubScene, games, fetchState,
     rendered, sinceMove, timers, location,
     loopFrame, touchPoints, token, upstream, responses >>

platformVars == << gamepads, events >>
hubVars ==
  << enabled, isTouch, container, pollLoops, state, gamepadState,
     prevGamepadButtons, prevEdge, prevDirEdge, styles, initOptions,
     touchLog >>
\* What every operation of HubControls but init, destroy, the touch handlers
\* and justPressedDirection leaves alone.
sideVars == << loopFrame, touchPoints, token, upstream, responses >>
menuVars ==
  << virtualControls, touchState, menuPrev, hubScene, games, fetchState,
     rendered, sinceMove, timers, location, sideVars >>
restVars ==
  << prevDirEdge, styles, initOptions, touchLog, inputManager, menuVars >>
consumerVars == << usage, seenNow, seenBefore, snapshot, results >>
adapterVars ==
  << adapter, keys, prevButtons, inputNow, inputBefore, fired, input, analog >>

(***************************************************************************)
(* HubControls.getState                                                    *)
(***************************************************************************)
Abs(v) == IF v < 0 THEN -v ELSE v

\* Math.max(-1, Math.min(1, v))
Clamp(v) == IF v < -100 THEN -100 ELSE IF v > 100 THEN 100 ELSE v

\* Mutant: the stick overrides from the deadzone on (>=) instead of beyond it.
MergeAxisAtDeadzone(connected, touchNeg, touchPos, axis, padNeg, padPos) ==
  LET t1 == IF touchNeg THEN -100 ELSE 0
      t2 == IF touchPos THEN t1 + 100 ELSE t1
      s  == IF connected /\ Abs(axis) >= deadzone THEN axis ELSE t2
      d1 == IF connected /\ padNeg THEN -100 ELSE s
      d2 == IF connected /\ padPos THEN 100 ELSE d1
  IN  Clamp(d2)

\* Mutant: the stick is applied after the D-pad buttons.
MergeAxisStickLast(connected, touchNeg, touchPos, axis, padNeg, padPos) ==
  LET t1 == IF touchNeg THEN -100 ELSE 0
      t2 == IF touchPos THEN t1 + 100 ELSE t1
      d1 == IF connected /\ padNeg THEN -100 ELSE t2
      d2 == IF connected /\ padPos THEN 100 ELSE d1
      s  == IF connected /\ Abs(axis) > deadzone THEN axis ELSE d2
  IN  Clamp(s)

\* Mutant: the gamepad is merged without the test of gp.connected.
MergeAxisAnyPad(connected, touchNeg, touchPos, axis, padNeg, padPos) ==
  LET t1 == IF touchNeg THEN -100 ELSE 0
      t2 == IF touchPos THEN t1 + 100 ELSE t1
      s  == IF Abs(axis) > deadzone THEN axis ELSE t2
      d1 == IF padNeg THEN -100 ELSE s
      d2 == IF padPos THEN 100 ELSE d1
  IN  Clamp(d2)

\* Mutant: the stick overrides the touch value without a deadzone test.
MergeAxisNoDeadzone(connected, touchNeg, touchPos, axis, padNeg, padPos) ==
  LET t1 == IF touchNeg THEN -100 ELSE 0
      t2 == IF touchPos THEN t1 + 100 ELSE t1
      s  == IF connected THEN axis ELSE t2
      d1 == IF connected /\ padNeg THEN -100 ELSE s
      d2 == IF connected /\ padPos THEN 100 ELSE d1
  IN  Clamp(d2)

\* One axis of getState().direction. touchNeg/touchPos are the touch segments
\* (left/right or up/down), axis the stick value, padNeg/padPos the gamepad
\* D-pad buttons of the axis.
MergeAxis(connected, touchNeg, touchPos, axis, padNeg, padPos) ==
  LET t0 == 0
      t1 == IF touchNeg THEN t0 - 100 ELSE t0
      t2 == IF touchPos THEN t1 + 100 ELSE t1
      s  == IF connected /\ Abs(axis) > deadzone THEN axis ELSE t2
      d1 == IF connected /\ padNeg THEN -100 ELSE s
      d2 == IF connected /\ padPos THEN 100 ELSE d1
  IN  Clamp(d2)

\* Mutant: a significant stick value on either axis overwrites both axes (the
\* merge of HubThreeAdapter.getInput).
MergeDirectionBothAxes(gp, touch) ==
  LET tx == (IF "right" \in touch THEN 100 ELSE 0)
              - (IF "left" \in touch THEN 100 ELSE 0)
      ty == (IF "down" \in touch THEN 100 ELSE 0)
              - (IF "up" \in touch THEN 100 ELSE 0)
      significant == gp.connected /\ (Abs(gp.axes[1]) > deadzone
                                        \/ Abs(gp.axes[2]) > deadzone)
      sx == IF significant THEN gp.axes[1] ELSE tx
      sy == IF significant THEN gp.axes[2] ELSE ty
      px == IF gp.connected /\ "right" \in gp.buttons THEN 100
            ELSE IF gp.connected /\ "left" \in gp.buttons THEN -100 ELSE sx
      py == IF gp.connected /\ "down" \in gp.buttons THEN 100
            ELSE IF gp.connected /\ "up" \in gp.buttons THEN -100 ELSE sy
  IN  [x |-> Clamp(px), y |-> Clamp(py)]

MergeDirection(gp, touch) ==
  [ x |-> MergeAxis(gp.connected, "left" \in touch, "right" \in touch,
                    gp.axes[1], "left" \in gp.buttons, "right" \in gp.buttons),
    y |-> MergeAxis(gp.connected, "up" \in touch, "down" \in touch,
                    gp.axes[2], "up" \in gp.buttons, "down" \in gp.buttons) ]

\* Mutant: start is read from the gamepad alone.
MergeButtonsPadStart(gp, touch) ==
  {b \in StateButtons :
     \/ b \in {"a", "b"} /\ b \in touch
     \/ b \in gp.buttons}

\* getState().buttons: a, b and start are touch || gamepad, the others gamepad.
MergeButtons(gp, touch) ==
  {b \in StateButtons :
     \/ b \in {"a", "b", "start"} /\ b \in touch
     \/ b \in gp.buttons}

\* Mutant: the raw axes pass through the deadzone, like the direction.
GetStateOfFilteredAxes(gp, touch, touchCapable) ==
  [ direction |-> MergeDirection(gp, touch),
    buttons   |-> MergeButtons(gp, touch),
    gamepad   |-> IF gp.connected
                    THEN Some([connected |-> TRUE,
                               axes |-> [i \in 1..4 |->
                                           IF Abs(gp.axes[i]) > deadzone
                                             THEN gp.axes[i] ELSE 0],
                               buttons |-> gp.buttons])
                    ELSE Null,
    source    |-> [touch |-> touchCapable, gamepad |-> gp.connected] ]

\* Mutant: the raw gamepad data is returned whether or not gp.connected.
GetStateOfAlwaysRaw(gp, touch, touchCapable) ==
  [ direction |-> MergeDirection(gp, touch),
    buttons   |-> MergeButtons(gp, touch),
    gamepad   |-> Some([connected |-> TRUE, axes |-> gp.axes,
                        buttons |-> gp.buttons]),
    source    |-> [touch |-> touchCapable, gamepad |-> gp.connected] ]

GetStateOf(gp, touch, touchCapable) ==
  [ direction |-> MergeDirection(gp, touch),
    buttons   |-> MergeButtons(gp, touch),
    gamepad   |-> IF gp.connected
                    THEN Some([connected |-> TRUE, axes |-> gp.axes,
                               buttons |-> gp.buttons])
                    ELSE Null,
    source    |-> [touch |-> touchCapable, gamepad |-> gp.connected] ]

GetState == GetStateOf(gamepadState, state, isTouch)

hasGamepad == gamepadState.connected
hasTouch == isTouch

(***************************************************************************)
(* HubControls.justPressed / justReleased: one call, given the edge cache  *)
(* (the names b whose this['_prev_' + b] is truthy). The result is the     *)
(* returned value and the cache the call leaves behind.                    *)
(***************************************************************************)
\* Mutant: the rising-edge test without the write of this['_prev_' + b].
JustPressedKeepsCache(cache, button) ==
  LET current == button \in GetState.buttons
      prev    == button \in cache
  IN  [ret |-> current /\ ~prev, cache |-> cache]

\* Mutant: the level of the button instead of its rising edge.
JustPressedLevel(cache, button) ==
  LET current == button \in GetState.buttons
  IN  [ ret   |-> current,
        cache |-> IF current THEN cache \cup {button} ELSE cache \ {button} ]

JustPressed(cache, button) ==
  LET current == button \in GetState.buttons
      prev    == button \in cache
  IN  [ ret   |-> current /\ ~prev,
        cache |-> IF current THEN cache \cup {button} ELSE cache \ {button} ]

JustReleased(cache, button) ==
  LET current == button \in GetState.buttons
      prev    == button \in cache
  IN  [ ret   |-> ~current /\ prev,
        cache |-> IF current THEN cache \cup {button} ELSE cache \ {button} ]

\* HubControls.justPressedDirection: one call, given the names d whose
\* this['_prev_dir_' + d] is truthy. Any other name than the four directions
\* leaves current false.
JustPressedDirection(cache, direction) ==
  LET dir     == GetState.direction
      current == CASE direction = "up"    -> dir.y < -50
                   [] direction = "down"  -> dir.y > 50
                   [] direction = "left"  -> dir.x < -50
                   [] direction = "right" -> dir.x > 50
                   [] OTHER               -> FALSE
      prev    == direction \in cache
  IN  [ ret   |-> current /\ ~prev,
        cache |-> IF current THEN cache \cup {direction}
                  ELSE cache \ {direction} ]

(***************************************************************************)
(* The adapters: HubPhaserAdapter, HubThreeAdapter and the GenericAdapter  *)
(* of AdapterLoader.createGenericAdapter. getInput() is the record of its  *)
(* direction and of "on", the names of its truthy boolean fields.          *)
(***************************************************************************)
Adapters == {"phaser", "three", "generic"}

\* window.HubControls?.enabled ? window.HubControls.getState() : null
Hub == IF enabled THEN Some(GetState) ELSE Null

Truthy(val) == {f \in DOMAIN val : val[f]}

\* A key of the Phaser adapter is down: the key objects of setupKeyboard
\* follow the keyboard (A is KeyA, LEFT is ArrowLeft, J is KeyJ, ...).
Down(codes) == codes \cap keys # {}

PhaserInput ==
  LET hub  == Hub
      has  == hub # Null
      dir  == IF has THEN The(hub).direction ELSE [x |-> 0, y |-> 0]
      btn(n) == has /\ n \in The(hub).buttons
      left  == (has /\ dir.x < -30) \/ Down({"ArrowLeft"}) \/ Down({"KeyA"})
      right == (has /\ dir.x > 30) \/ Down({"ArrowRight"}) \/ Down({"KeyD"})
      up    == (has /\ dir.y < -30) \/ Down({"ArrowUp"}) \/ Down({"KeyW"})
      down  == (has /\ dir.y > 30) \/ Down({"ArrowDown"}) \/ Down({"KeyS"})
      a     == btn("a") \/ Down({"KeyJ"})
      b     == btn("b") \/ Down({"KeyK"})
      start == btn("start")
  IN  [ direction |->
          IF has THEN dir
          ELSE [x |-> (IF left THEN -100 ELSE 0) + (IF right THEN 100 ELSE 0),
                y |-> (IF up THEN -100 ELSE 0) + (IF down THEN 100 ELSE 0)],
        on |-> Truthy(
          [ left |-> left, right |-> right, up |-> up, down |-> down,
            a |-> a, b |-> b, x |-> btn("x"), y |-> btn("y"),
            start |-> start, select |-> btn("select"),
            lb |-> btn("lb"), rb |-> btn("rb"),
            lt |-> btn("lt"), rt |-> btn("rt"),
            jump |-> a, attack |-> a, confirm |-> a, cancel |-> b,
            interact |-> a, pause |-> start,
            hasGamepad |-> has /\ The(hub).source.gamepad,
            hasTouch |-> has /\ The(hub).source.touch ]) ]

\* this.options.deadzone of HubThreeAdapter, in hundredths.
ThreeDeadzone == 15

ThreeInput ==
  LET hub  == Hub
      has  == hub # Null
      btn(n) == has /\ n \in The(hub).buttons
      kx == (IF Down({"KeyD", "ArrowRight"}) THEN 100 ELSE 0)
              - (IF Down({"KeyA", "ArrowLeft"}) THEN 100 ELSE 0)
      ky == (IF Down({"KeyS", "ArrowDown"}) THEN 100 ELSE 0)
              - (IF Down({"KeyW", "ArrowUp"}) THEN 100 ELSE 0)
      over == has /\ (Abs(The(hub).direction.x) > 10
                        \/ Abs(The(hub).direction.y) > 10)
      dirX == IF over THEN The(hub).direction.x ELSE kx
      dirY == IF over THEN The(hub).direction.y ELSE ky
      a     == btn("a") \/ Down({"Space", "Enter", "KeyU"})
      b     == btn("b") \/ Down({"Escape", "KeyI"})
      x     == btn("x") \/ Down({"KeyJ"})
      y     == btn("y") \/ Down({"KeyK"})
      start == btn("start") \/ Down({"Tab"})
      lb    == btn("lb") \/ Down({"KeyQ"})
      rb    == btn("rb") \/ Down({"KeyE"})
  IN  [ direction |-> [x |-> dirX, y |-> dirY],
        on |-> Truthy(
          [ left |-> dirX < -ThreeDeadzone, right |-> dirX > ThreeDeadzone,
            up |-> dirY < -ThreeDeadzone, down |-> dirY > ThreeDeadzone,
            a |-> a, b |-> b, x |-> x, y |-> y,
            start |-> start, select |-> btn("select"),
            lb |-> lb, rb |-> rb, lt |-> btn("lt"), rt |-> btn("rt"),
            jump |-> a, attack |-> x, interact |-> a, dodge |-> b,
            sprint |-> rb \/ Down({"ShiftLeft"}), pause |-> start,
            hasGamepad |-> has /\ The(hub).source.gamepad,
            hasTouch |-> has /\ The(hub).source.touch ]) ]

GenericInput ==
  LET hub  == Hub
      has  == hub # Null
      dir  == IF has THEN The(hub).direction ELSE [x |-> 0, y |-> 0]
      btn(n) == has /\ n \in The(hub).buttons
      left  == Down({"KeyA", "ArrowLeft"}) \/ (has /\ dir.x < -30)
      right == Down({"KeyD", "ArrowRight"}) \/ (has /\ dir.x > 30)
      up    == Down({"KeyW", "ArrowUp"}) \/ (has /\ dir.y < -30)
      down  == Down({"KeyS", "ArrowDown"}) \/ (has /\ dir.y > 30)
      a     == btn("a") \/ Down({"Space", "Enter"})
      b     == btn("b") \/ Down({"Escape"})
  IN  [ direction |->
          IF has THEN dir
          ELSE [x |-> (IF left THEN -100 ELSE 0) + (IF right THEN 100 ELSE 0),
                y |-> (IF up THEN -100 ELSE 0) + (IF down THEN 100 ELSE 0)],
        on |-> Truthy(
          [ left |-> left, right |-> right, up |-> up, down |-> down,
            a |-> a, b |-> b, x |-> btn("x"), y |-> btn("y"),
            start |-> btn("start") \/ Down({"Tab"}),
            jump |-> a, confirm |-> a, cancel |-> b,
            hasGamepad |-> has /\ The(hub).source.gamepad,
            hasTouch |-> has /\ The(hub).source.touch ]) ]

GetInput(ad) ==
  CASE ad = "phaser"  -> PhaserInput
    [] ad = "three"   -> ThreeInput
    [] ad = "generic" -> GenericInput

\* adapter.justPressed(button): getInput()[button] && !_prevButtons[button].
\* A name that getInput() does not return reads undefined, which is falsy.
AdapterJustPressed(ad, button) ==
  button \in GetInput(ad).on /\ button \notin prevButtons

\* The names endFrame() copies into _prevButtons.
EndFrameNames(ad) ==
  CASE ad = "phaser"  -> {"a", "b", "x", "y", "start", "select", "lb", "rb",
                          "left", "right", "up", "down"}
    [] ad = "three"   -> {"a", "b", "x", "y", "start", "lb", "rb",
                          "jump", "attack", "interact"}
    [] ad = "generic" -> {"a", "b", "x", "y", "start",
                          "left", "right", "up", "down"}

EndFrame(ad) ==
  (prevButtons \ EndFrameNames(ad)) \cup (EndFrameNames(ad) \cap GetInput(ad).on)

\* HubPhaserAdapter.getAnalog(): the raw stick axes while hub.gamepad is
\* there, the digital input otherwise.
PhaserAnalog ==
  LET hub == Hub IN
    IF hub # Null /\ The(hub).gamepad # Null
      THEN LET axes == The(The(hub).gamepad).axes
           IN  [x |-> axes[1], y |-> axes[2], rightX |-> axes[3],
                rightY |-> axes[4]]
      ELSE LET on == PhaserInput.on
           IN  [x |-> (IF "left" \in on THEN -100 ELSE 0)
                        + (IF "right" \in on THEN 100 ELSE 0),
                y |-> (IF "up" \in on THEN -100 ELSE 0)
                        + (IF "down" \in on THEN 100 ELSE 0),
                rightX |-> 0, rightY |-> 0]

(***************************************************************************)
(* The platform: devices are plugged into and removed from the four slots, *)
(* their buttons are pressed and released, and each arrival or removal     *)
(* queues the platform's event. The environment has one device, which it   *)
(* plugs into slot 0 or slot 1, and the platform dispatches an event       *)
(* before the device arrives or leaves again.                              *)
(***************************************************************************)
NeutralPad == [axes |-> <<0, 0, 0, 0>>, buttons |-> {}]

Occupied == {i \in Slots : gamepads[i] # Null}

Plug(i) ==
  /\ Occupied = {}
  /\ events = <<>>
  /\ gamepads' = [gamepads EXCEPT ![i] = Some(NeutralPad)]
  /\ events' = Append(events, "gamepadconnected")
  /\ UNCHANGED << hubVars, consumerVars, adapterVars, inputManager, menuVars >>

Unplug(i) ==
  /\ gamepads[i] # Null
  /\ events = <<>>
  /\ gamepads' = [gamepads EXCEPT ![i] = Null]
  /\ events' = Append(events, "gamepaddisconnected")
  /\ UNCHANGED << hubVars, consumerVars, adapterVars, inputManager, menuVars >>

PadPress(i, b) ==
  /\ gamepads[i] # Null
  /\ b \notin The(gamepads[i]).buttons
  /\ gamepads' = [gamepads EXCEPT ![i][1].buttons = @ \cup {b}]
  /\ UNCHANGED << events, hubVars, consumerVars, adapterVars, inputManager, menuVars >>

PadRelease(i, b) ==
  /\ gamepads[i] # Null
  /\ b \in The(gamepads[i]).buttons
  /\ gamepads' = [gamepads EXCEPT ![i][1].buttons = @ \ {b}]
  /\ UNCHANGED << events, hubVars, consumerVars, adapterVars, inputManager, menuVars >>

(***************************************************************************)
(* HubControls.init: setupGamepad, startPolling and, on a touch device,    *)
(* the virtual controls. The page calls it when HubControls is not enabled:*)
(* at load, and again after a destroy(). Each call adds a pair of window   *)
(* listeners and a polling loop. Whether the device has touch is the same  *)
(* at every call.                                                          *)
(***************************************************************************)
\* Mutant: init creates the virtual controls without looking at isTouch.
HubInitAlwaysControls(touchCapable, options) ==
  /\ ~enabled
  /\ pollLoops < MaxInits
  /\ pollLoops > 0 => touchCapable = isTouch
  /\ initOptions' = options
  /\ isTouch' = touchCapable
  /\ pollLoops' = pollLoops + 1
  /\ styles' = TRUE
  /\ container' = TRUE
  /\ enabled' = TRUE
  /\ UNCHANGED << state, gamepadState, prevGamepadButtons, prevEdge,
                  prevDirEdge, touchLog, inputManager, menuVars,
                  platformVars, consumerVars, adapterVars >>

HubInit(touchCapable, options) ==
  /\ ~enabled
  /\ pollLoops < MaxInits
  /\ pollLoops > 0 => touchCapable = isTouch
  /\ initOptions' = options
  /\ isTouch' = touchCapable
  /\ pollLoops' = pollLoops + 1
  /\ styles' = (touchCapable \/ styles)
  /\ container' = touchCapable
  /\ enabled' = TRUE
  /\ UNCHANGED << state, gamepadState, prevGamepadButtons, prevEdge,
                  prevDirEdge, touchLog, inputManager, menuVars,
                  platformVars, consumerVars, adapterVars >>

(***************************************************************************)
(* HubControls.destroy                                                     *)
(***************************************************************************)
Destroy ==
  /\ enabled
  /\ container' = FALSE
  /\ styles' = FALSE
  /\ enabled' = FALSE
  /\ UNCHANGED << isTouch, pollLoops, state, gamepadState, prevGamepadButtons,
                  prevEdge, prevDirEdge, initOptions, touchLog, inputManager,
                  menuVars,
                  platformVars, consumerVars, adapterVars >>

(***************************************************************************)
(* The listeners of setupGamepad. An event dispatched before init has      *)
(* registered them reaches nobody.                                         *)
(***************************************************************************)
DispatchGamepadEvent ==
  /\ events # <<>>
  /\ events' = Tail(events)
  /\ gamepadState' =
       IF pollLoops = 0 THEN gamepadState
       ELSE [gamepadState EXCEPT
               !.connected = (Head(events) = "gamepadconnected")]
  /\ UNCHANGED << gamepads, enabled, isTouch, container, pollLoops, state,
                  prevGamepadButtons, prevEdge, restVars, consumerVars,
                  adapterVars >>

(***************************************************************************)
(* HubControls.pollGamepad, run by the loop of startPolling.               *)
(***************************************************************************)
\* gamepads[0] || gamepads[1] || gamepads[2] || gamepads[3]
FirstPad ==
  IF gamepads[0] # Null THEN gamepads[0]
  ELSE IF gamepads[1] # Null THEN gamepads[1]
  ELSE IF gamepads[2] # Null THEN gamepads[2]
  ELSE gamepads[3]

\* Mutant: a poll that finds no device resets the gamepad state to neutral.
PollGamepadResets ==
  /\ pollLoops > 0
  /\ LET gp == FirstPad IN
       IF gp = Null
         THEN /\ gamepadState' = [connected |-> FALSE, axes |-> <<0, 0, 0, 0>>,
                                  buttons |-> {}]
              /\ prevGamepadButtons' = {}
         ELSE /\ gamepadState' = [connected |-> TRUE,
                                  axes      |-> The(gp).axes,
                                  buttons   |-> The(gp).buttons]
              /\ prevGamepadButtons' = gamepadState.buttons
  /\ UNCHANGED << platformVars, enabled, isTouch, container, pollLoops,
                  state, prevEdge, restVars, consumerVars, adapterVars >>

PollGamepad ==
  /\ pollLoops > 0
  /\ LET gp == FirstPad IN
       IF gp = Null
         THEN /\ gamepadState' = [gamepadState EXCEPT !.connected = FALSE]
              /\ UNCHANGED prevGamepadButtons
         ELSE /\ gamepadState' = [connected |-> TRUE,
                                  axes      |-> The(gp).axes,
                                  buttons   |-> The(gp).buttons]
              /\ prevGamepadButtons' = gamepadState.buttons
  /\ UNCHANGED << platformVars, enabled, isTouch, container, pollLoops,
                  state, prevEdge, restVars, consumerVars, adapterVars >>

(***************************************************************************)
(* InputManager.pollGamepad of the menu, run by update() in every frame of *)
(* the menu's game loop.                                                   *)
(***************************************************************************)
\* InputManager.gamepadState and .prevGamepadButtons after pollGamepad().
MenuPolled ==
  LET gp == gamepads[0] IN
    IF gp = Null
      THEN [inputManager EXCEPT !.connected = FALSE]
      ELSE [ connected          |-> TRUE,
             axes               |-> The(gp).axes,
             prevGamepadButtons |-> inputManager.buttons,
             buttons            |-> The(gp).buttons ]

MenuPollGamepad ==
  /\ inputManager' = MenuPolled
  /\ UNCHANGED << platformVars, hubVars, consumerVars, adapterVars,
                  menuVars >>

(***************************************************************************)
(* The menu page: VirtualControls, InputManager and HubScene under the     *)
(* game loop of main.js. Times are hundredths of a second: dt = 0.1 is 10, *)
(* the cooldown 0.2 is 20; transitionAlpha is in hundredths as well.       *)
(* HubScene.time, the scroll position and InputManager.prevKeys are        *)
(* written every frame and read by the drawing code only; they are left    *)
(* out.                                                                    *)
(***************************************************************************)
\* InputManager.deadzone, in hundredths.
MenuDeadzone == 15
\* The value update() gives selectCooldown after a move: 0.2 s.
SelectCooldown == 20
\* The cap of dt in gameLoop: 0.1 s.
MaxDt == 10

MenuActions == {"confirm", "cancel", "menu", "up", "down", "left", "right"}

\* InputManager.isPressed(action) with gamepad state im, keys ks, touch ts.
IsPressedOf(im, ks, ts, action) ==
  CASE action = "confirm" ->
         \/ {"Enter", "Space", "KeyU"} \cap ks # {}
         \/ "a" \in im.buttons
         \/ "a" \in ts.buttons
    [] action = "cancel" ->
         \/ {"Escape", "KeyI", "Backspace"} \cap ks # {}
         \/ "b" \in im.buttons
         \/ "b" \in ts.buttons
    [] action = "menu" ->
         \/ {"Tab", "KeyM"} \cap ks # {}
         \/ "start" \in im.buttons
    [] action = "up" ->
         \/ {"KeyW", "ArrowUp"} \cap ks # {}
         \/ "up" \in im.buttons
         \/ im.axes[2] < -MenuDeadzone
         \/ ts.direction.y < -50
    [] action = "down" ->
         \/ {"KeyS", "ArrowDown"} \cap ks # {}
         \/ "down" \in im.buttons
         \/ im.axes[2] > MenuDeadzone
         \/ ts.direction.y > 50
    [] action = "left" ->
         \/ {"KeyA", "ArrowLeft"} \cap ks # {}
         \/ "left" \in im.buttons
         \/ im.axes[1] < -MenuDeadzone
         \/ ts.direction.x < -50
    [] action = "right" ->
         \/ {"KeyD", "ArrowRight"} \cap ks # {}
         \/ "right" \in im.buttons
         \/ im.axes[1] > MenuDeadzone
         \/ ts.direction.x > 50
    [] OTHER -> FALSE

\* The actions pressed now, with gamepad state im.
MenuPressed(im) == {a \in MenuActions : IsPressedOf(im, keys, touchState, a)}

\* InputManager.justPressed(action): isPressed(action) && !this['_prev_' +
\* action]; the call writes nothing.
MenuJustPressed(im, action) ==
  IsPressedOf(im, keys, touchState, action) /\ action \notin menuPrev

\* Mutant: endFrame() stores the buttons and leaves the directions out.
MenuEndFrameButtonsOnly(im) ==
  (menuPrev \ {"confirm", "cancel", "menu"})
    \cup (MenuPressed(im) \cap {"confirm", "cancel", "menu"})

\* InputManager.endFrame(): the new previous-state cache.
MenuEndFrame(im) == MenuPressed(im)

\* Mutant: gameLoop passes the frame time on without the cap.
FrameDtUncapped(elapsed) == elapsed

\* gameLoop: dt = Math.min((timestamp - lastTime) / 1000, 0.1).
FrameDt(elapsed) == Min(elapsed, MaxDt)

\* Mutant: update() runs the navigation while the scene is transitioning.
UpdateWhileTransitioning(scene, edges, dt, n) ==
  LET cooled == IF scene.selectCooldown > 0
                  THEN scene.selectCooldown - dt ELSE scene.selectCooldown
      back == cooled <= 0 /\ {"left", "up"} \cap edges # {}
      forth == cooled <= 0 /\ {"right", "down"} \cap edges # {}
      i1 == IF back THEN (scene.selectedIndex - 1 + n) % n
            ELSE scene.selectedIndex
      i2 == IF forth THEN (i1 + 1) % n ELSE i1
      launch == "confirm" \in edges /\ ~scene.isTransitioning
  IN  [ selectedIndex   |-> i2,
        selectCooldown  |-> IF back \/ forth THEN SelectCooldown ELSE cooled,
        isTransitioning |-> scene.isTransitioning \/ launch,
        transitionAlpha |->
          IF launch THEN 0
          ELSE IF scene.isTransitioning
            THEN Min(100, scene.transitionAlpha + dt * 2)
            ELSE scene.transitionAlpha ]

\* Mutant: the selection stops at the first and at the last card.
UpdateClamps(scene, edges, dt, n) ==
  IF scene.isTransitioning
    THEN [scene EXCEPT !.transitionAlpha = Min(100, @ + dt * 2)]
    ELSE
      LET cooled == IF scene.selectCooldown > 0
                      THEN scene.selectCooldown - dt ELSE scene.selectCooldown
          back == cooled <= 0 /\ {"left", "up"} \cap edges # {}
          forth == cooled <= 0 /\ {"right", "down"} \cap edges # {}
          i1 == IF back /\ scene.selectedIndex > 0
                  THEN scene.selectedIndex - 1 ELSE scene.selectedIndex
          i2 == IF forth /\ i1 < n - 1 THEN i1 + 1 ELSE i1
          launch == "confirm" \in edges
      IN  [ selectedIndex   |-> i2,
            selectCooldown  |-> IF back \/ forth THEN SelectCooldown
                                ELSE cooled,
            isTransitioning |-> launch,
            transitionAlpha |-> IF launch THEN 0 ELSE scene.transitionAlpha ]

\* HubScene.update(dt) with launchGame(): the scene after the call, where
\* edges are the actions for which justPressed returns true in this frame and
\* n is games.length. src/hub/HubScene.js has the same update and launchGame
\* up to the way the navigation is requested.
Update(scene, edges, dt, n) ==
  IF scene.isTransitioning
    THEN [scene EXCEPT !.transitionAlpha = Min(100, @ + dt * 2)]
    ELSE
      LET cooled == IF scene.selectCooldown > 0
                      THEN scene.selectCooldown - dt ELSE scene.selectCooldown
          back == cooled <= 0 /\ {"left", "up"} \cap edges # {}
          forth == cooled <= 0 /\ {"right", "down"} \cap edges # {}
          i1 == IF back THEN (scene.selectedIndex - 1 + n) % n
                ELSE scene.selectedIndex
          i2 == IF forth THEN (i1 + 1) % n ELSE i1
          launch == "confirm" \in edges
      IN  [ selectedIndex   |-> i2,
            selectCooldown  |-> IF back \/ forth THEN SelectCooldown
                                ELSE cooled,
            isTransitioning |-> launch,
            transitionAlpha |-> IF launch THEN 0 ELSE scene.transitionAlpha ]

\* Mutant: a card without a date gets an empty label.
FormatDateEmpty(date) == IF date = Null THEN "" ELSE Some(The(date))

\* HubScene.formatDate(date): the placeholder for a card without a date, the
\* formatted day otherwise.
FormatDate(date) == IF date = Null THEN "Loading..." ELSE Some(The(date))

\* One call of gameLoop: input.update(), hub.update(dt), hub.render(),
\* input.endFrame(). elapsed is the time since the previous frame.
MenuFrame(elapsed) ==
  LET im    == MenuPolled
      edges == {a \in MenuActions : MenuJustPressed(im, a)}
      scene == Update(hubScene, edges, FrameDt(elapsed), Len(games))
  IN  /\ inputManager' = im
      /\ hubScene' = scene
      /\ timers' = IF scene.isTransitioning /\ ~hubScene.isTransitioning
                     THEN Append(timers, games[scene.selectedIndex + 1].id)
                     ELSE timers
      /\ rendered' = Some([i \in 1..Len(games) |->
                             FormatDate(games[i].lastUpdate)])
      /\ menuPrev' = MenuEndFrame(im)
      /\ sinceMove' =
           IF scene.selectedIndex # hubScene.selectedIndex THEN Some(0)
           ELSE IF sinceMove = Null THEN Null
           ELSE Some(Min(The(sinceMove) + FrameDt(elapsed), SelectCooldown))
      /\ UNCHANGED << platformVars, hubVars, consumerVars, adapterVars,
                      virtualControls, touchState, games, fetchState,
                      location, sideVars >>

\* The callback of launchGame's setTimeout: window.location.assign(url).
TimerFires ==
  /\ timers # <<>>
  /\ location' = Append(location, Head(timers))
  /\ timers' = Tail(timers)
  /\ UNCHANGED << platformVars, hubVars, consumerVars, adapterVars,
                  inputManager, virtualControls, touchState, menuPrev,
                  hubScene, games, fetchState, rendered, sinceMove,
                  sideVars >>

\* The keydown and keyup listeners of InputManager.setupKeyboard.
MenuKeyDown(k) ==
  /\ k \notin keys
  /\ keys' = keys \cup {k}
  /\ UNCHANGED << platformVars, hubVars, consumerVars, inputManager, menuVars,
                  adapter, prevButtons, inputNow, inputBefore, fired, input,
                  analog >>

MenuKeyUp(k) ==
  /\ k \in keys
  /\ keys' = keys \ {k}
  /\ UNCHANGED << platformVars, hubVars, consumerVars, inputManager, menuVars,
                  adapter, prevButtons, inputNow, inputBefore, fired, input,
                  analog >>

\* VirtualControls.handleDpadPress(direction, pressed), from the touchstart
\* (pressed), touchend and touchcancel (released) listeners of a D-pad
\* button, with updateInputDirection() and InputManager.setTouchDirection.
HandleDpadPress(direction, pressed) ==
  /\ virtualControls.enabled
  /\ (direction \in virtualControls.dpadState) # pressed
  /\ LET dpad == IF pressed
                   THEN virtualControls.dpadState \cup {direction}
                   ELSE virtualControls.dpadState \ {direction}
     IN  /\ virtualControls' = [virtualControls EXCEPT !.dpadState = dpad]
         /\ touchState' =
              [touchState EXCEPT
                 !.direction =
                   [x |-> (IF "right" \in dpad THEN 100 ELSE 0)
                            - (IF "left" \in dpad THEN 100 ELSE 0),
                    y |-> (IF "down" \in dpad THEN 100 ELSE 0)
                            - (IF "up" \in dpad THEN 100 ELSE 0)]]
  /\ UNCHANGED << platformVars, hubVars, consumerVars, adapterVars,
                  inputManager, menuPrev, hubScene, games, fetchState,
                  rendered, sinceMove, timers, location, sideVars >>

\* VirtualControls.handleButtonPress(button, pressed) with
\* InputManager.setTouchButton, for the buttons a, b and start.
HandleButtonPress(button, pressed) ==
  /\ virtualControls.enabled
  /\ (button \in virtualControls.buttonState) # pressed
  /\ virtualControls' =
       [virtualControls EXCEPT
          !.buttonState = IF pressed THEN @ \cup {button} ELSE @ \ {button}]
  /\ touchState' =
       [touchState EXCEPT
          !.buttons = IF pressed THEN @ \cup {button} ELSE @ \ {button}]
  /\ UNCHANGED << platformVars, hubVars, consumerVars, adapterVars,
                  inputManager, menuPrev, hubScene, games, fetchState,
                  rendered, sinceMove, timers, location, sideVars >>

(***************************************************************************)
(* gameLoop statement by statement, as the InputManager sees it:           *)
(* input.update(), then the justPressed calls of hub.update(dt) and        *)
(* hub.render(), in any number up to MaxCalls and for any actions, then    *)
(* input.endFrame(). The listeners of the page run between two calls of    *)
(* gameLoop, never inside one.                                             *)
(***************************************************************************)
\* The justPressed calls one frame makes at most.
MaxCalls == 2

\* input.update(): pollGamepad().
LoopUpdate ==
  /\ loopFrame = Null
  /\ inputManager' = MenuPolled
  /\ loopFrame' = Some(<<>>)
  /\ UNCHANGED << platformVars, hubVars, consumerVars, adapterVars,
                  virtualControls, touchState, menuPrev, hubScene, games,
                  fetchState, rendered, sinceMove, timers, location,
                  touchPoints, token, upstream, responses >>

\* Mutant: a justPressed call that returns true marks the action as seen.
LoopJustPressedLatches(action) ==
  /\ loopFrame # Null
  /\ Len(The(loopFrame)) < MaxCalls
  /\ loopFrame' =
       Some(Append(The(loopFrame),
                   << action, MenuJustPressed(inputManager, action) >>))
  /\ menuPrev' = IF MenuJustPressed(inputManager, action)
                   THEN menuPrev \cup {action} ELSE menuPrev
  /\ UNCHANGED << platformVars, hubVars, consumerVars, adapterVars,
                  inputManager, virtualControls, touchState, hubScene,
                  games, fetchState, rendered, sinceMove, timers, location,
                  touchPoints, token, upstream, responses >>

\* A call of input.justPressed(action) inside hub.update(dt) or hub.render().
LoopJustPressed(action) ==
  /\ loopFrame # Null
  /\ Len(The(loopFrame)) < MaxCalls
  /\ loopFrame' =
       Some(Append(The(loopFrame),
                   << action, MenuJustPressed(inputManager, action) >>))
  /\ UNCHANGED << platformVars, hubVars, consumerVars, adapterVars,
                  inputManager, virtualControls, touchState, menuPrev,
                  hubScene, games, fetchState, rendered, sinceMove, timers,
                  location, touchPoints, token, upstream, responses >>

\* input.endFrame(), the last statement of gameLoop.
LoopEndFrame ==
  /\ loopFrame # Null
  /\ menuPrev' = MenuEndFrame(inputManager)
  /\ loopFrame' = Null
  /\ UNCHANGED << platformVars, hubVars, consumerVars, adapterVars,
                  inputManager, virtualControls, touchState, hubScene,
                  games, fetchState, rendered, sinceMove, timers, location,
                  touchPoints, token, upstream, responses >>

\* The gamepadconnected and gamepaddisconnected listeners of
\* InputManager.setupGamepad: they set gamepadState.connected and nothing
\* else.
MenuGamepadEvent ==
  /\ events # <<>>
  /\ events' = Tail(events)
  /\ inputManager' =
       [inputManager EXCEPT !.connected = (Head(events) = "gamepadconnected")]
  /\ UNCHANGED << gamepads, hubVars, consumerVars, adapterVars, menuVars >>

(***************************************************************************)
(* The scene of src/hub/HubScene.js, which main.js imports: it fetches no  *)
(* dates and sets no timer. Its update(dt) and launchGame() change the     *)
(* scene as Update does, and while the scene is transitioning update(dt)   *)
(* assigns the URL of games[selectedIndex] to window.location.href in      *)
(* every frame that finds transitionAlpha at 1. The page is gone after     *)
(* MaxNavigations assignments at the latest.                               *)
(***************************************************************************)
MaxNavigations == 2

\* One call of gameLoop with this scene.
SceneFrame(elapsed) ==
  LET im    == MenuPolled
      edges == {a \in MenuActions : MenuJustPressed(im, a)}
      scene == Update(hubScene, edges, FrameDt(elapsed), Len(games))
  IN  /\ Len(location) < MaxNavigations
      /\ inputManager' = im
      /\ hubScene' = scene
      /\ location' = IF hubScene.isTransitioning /\ scene.transitionAlpha >= 100
                       THEN Append(location, games[scene.selectedIndex + 1].id)
                       ELSE location
      /\ menuPrev' = MenuEndFrame(im)
      /\ sinceMove' =
           IF scene.selectedIndex # hubScene.selectedIndex THEN Some(0)
           ELSE IF sinceMove = Null THEN Null
           ELSE Some(Min(The(sinceMove) + FrameDt(elapsed), SelectCooldown))
      /\ UNCHANGED << platformVars, hubVars, consumerVars, adapterVars,
                      virtualControls, touchState, games, fetchState,
                      rendered, timers, sideVars >>

(***************************************************************************)
(* HubScene.fetchDeploymentDates. A date is a day number; the body of the  *)
(* response is Null when it has no deployments array and the sequence of   *)
(* its entries otherwise; an entry is Null when it is the JSON value null  *)
(* and the record of its id and lastUpdate otherwise.                      *)
(***************************************************************************)
\* The body carries at most MaxEntries entries.
MaxEntries == 2

Dates == {1, 2}

\* The ids the entries of a body carry: the first and the last card of the
\* menu, and a project the menu does not show.
EntryIds == {GameIds[1], GameIds[Len(GameIds)], "unknown"}

Entries ==
  {Null} \cup
    [id : EntryIds, lastUpdate : {Null} \cup {Some(d) : d \in Dates}]

Bodies ==
  {Null} \cup
    {Some(entries) :
       entries \in UNION {[1..n -> Entries] : n \in 0..MaxEntries}}

\* data.deployments.forEach(...): the cards after the loop, or as the loop
\* left them when reading deployment.id of a null entry threw.
RECURSIVE ApplyDeployments(_, _)
ApplyDeployments(gs, entries) ==
  IF entries = <<>> THEN [games |-> gs, threw |-> FALSE]
  ELSE
    LET d == Head(entries) IN
      IF d = Null THEN [games |-> gs, threw |-> TRUE]
      ELSE
        LET found == {i \in 1..Len(gs) : gs[i].id = d.id}
            first == CHOOSE i \in found : \A j \in found : i <= j
        IN  ApplyDeployments(
              IF found # {} /\ d.lastUpdate # Null
                THEN [gs EXCEPT ![first].lastUpdate = d.lastUpdate]
                ELSE gs,
              Tail(entries))

\* The comparator of the sort puts a before b: a has a date and b has none,
\* or a's date is the later one.
SortsBefore(a, b) ==
  /\ a.lastUpdate # Null
  /\ b.lastUpdate = Null \/ The(a.lastUpdate) > The(b.lastUpdate)

\* this.games.sort(...): the comparator returns 1 for two cards without a
\* date in either order, which is not a consistent ordering, so the order of
\* such cards, like that of cards with equal dates, is left to the engine.
SortOutcomes(gs) ==
  LET n == Len(gs)
      perms == {p \in [1..n -> 1..n] : \A i, j \in 1..n : p[i] = p[j] => i = j}
      seqs == {[i \in 1..n |-> gs[p[i]]] : p \in perms}
  IN  {sorted \in seqs :
         \A i, j \in 1..n : i < j => ~SortsBefore(sorted[j], sorted[i])}

\* What the catch block caught and logged, leaving the cards as they are.
Caught(reason) == [at |-> "done", error |-> Some(reason)]

fetchVars ==
  << platformVars, hubVars, consumerVars, adapterVars, inputManager,
     virtualControls, touchState, menuPrev, hubScene, rendered, sinceMove,
     timers, location, sideVars >>

\* await fetch(...) rejects: the network request failed.
FetchRejects ==
  /\ fetchState.at = "fetch"
  /\ fetchState' = Caught("rejected")
  /\ UNCHANGED << fetchVars, games >>

\* await fetch(...) resolves with a response; a response that is not ok
\* throws 'API request failed'.
FetchResponds(ok) ==
  /\ fetchState.at = "fetch"
  /\ fetchState' = IF ok THEN [at |-> "json", error |-> Null]
                   ELSE Caught("status")
  /\ UNCHANGED << fetchVars, games >>

\* await response.json() rejects: the body is not JSON.
BodyRejects ==
  /\ fetchState.at = "json"
  /\ fetchState' = Caught("body")
  /\ UNCHANGED << fetchVars, games >>

\* await response.json() resolves with data: the loop over data.deployments
\* and the sort.
BodyResolves(data) ==
  /\ fetchState.at = "json"
  /\ IF data = Null
       THEN /\ fetchState' = Caught("deployments")
            /\ UNCHANGED games
       ELSE LET applied == ApplyDeployments(games, The(data)) IN
              IF applied.threw
                THEN /\ fetchState' = Caught("entry")
                     /\ games' = applied.games
                ELSE /\ fetchState' = [at |-> "done", error |-> Null]
                     /\ games' \in SortOutcomes(applied.games)
  /\ UNCHANGED fetchVars

(***************************************************************************)
(* The serverless function /api/deployments. For every project the handler *)
(* asks the upstream API for the latest deployment, by project id first    *)
(* and by name when that response is not ok. What the upstream does with a *)
(* request is its reply: fetch rejects; the response is not ok; it is ok   *)
(* and its body is not JSON, has no deployments array, has an empty one,   *)
(* or has a first deployment without or with createdAt.                    *)
(***************************************************************************)
\* The handler serves the first NumProjects projects of PROJECTS.
NumProjects == 2

ProjectOrder ==
  << [id |-> "nageex",           name |-> "nageex"],
     [id |-> "island-crisis-3d", name |-> "island-crisis"],
     [id |-> "island-crisis-2d", name |-> "phaser-island-crisis"],
     [id |-> "thumb-game",       name |-> "thumb-game"],
     [id |-> "wario-clone",      name |-> "wario-clone"] >>

PROJECTS == SubSeq(ProjectOrder, 1, Min(NumProjects, Len(ProjectOrder)))

Replies ==
  [kind : {"rejects", "notOk", "notJson", "noList", "empty", "undated"},
   createdAt : {Null}]
    \cup [kind : {"dated"}, createdAt : {Some(d) : d \in Dates}]

\* The replies to the two requests of one project; there is a second
\* request only when the first response is not ok.
Upstreams ==
  {u \in [primary : Replies, fallback : {Null} \cup {Some(r) : r \in Replies}] :
     (u.fallback # Null) <=> (u.primary.kind = "notOk")}

\* await response.json(), data.deployments?.[0] and deployment?.createdAt ||
\* null: the entry of the project, or Null when json() rejects.
EntryOfBody(project, reply) ==
  IF reply.kind = "notJson" THEN Null
  ELSE Some([id |-> project.id,
             lastUpdate |-> IF reply.kind = "dated" THEN reply.createdAt
                            ELSE Null])

\* Mutant: the callback of a project has no try and catch of its own.
LookupUncaught(project, u) ==
  IF u.primary.kind = "rejects" THEN Null
  ELSE IF u.primary.kind = "notOk"
    THEN LET team == The(u.fallback) IN
           IF team.kind = "rejects" THEN Null
           ELSE IF team.kind = "notOk"
             THEN Some([id |-> project.id, lastUpdate |-> Null])
             ELSE EntryOfBody(project, team)
    ELSE EntryOfBody(project, u.primary)

\* The async callback of PROJECTS.map for one project: the entry its promise
\* resolves with, or Null when the promise rejects. Whatever is thrown
\* inside the callback is caught there and makes the entry { id, lastUpdate:
\* null }.
Lookup(project, u) ==
  LET failed == Some([id |-> project.id, lastUpdate |-> Null])
      caught(entry) == IF entry = Null THEN failed ELSE entry
  IN  IF u.primary.kind = "rejects" THEN failed
      ELSE IF u.primary.kind = "notOk"
        THEN LET team == The(u.fallback) IN
               IF team.kind = "rejects" THEN failed
               ELSE IF team.kind = "notOk" THEN failed
               ELSE caught(EntryOfBody(project, team))
        ELSE caught(EntryOfBody(project, u.primary))

\* handler(req, res): the one response it sends. Promise.all resolves with
\* the entries in the order of PROJECTS, and rejects when a callback's
\* promise rejects, which the outer catch answers with status 500.
Handler ==
  /\ responses = <<>>
  /\ LET entries == [i \in 1..Len(PROJECTS) |-> Lookup(PROJECTS[i], upstream[i])]
     IN  responses' =
           IF ~token
             THEN << [status |-> 500,
                      error |-> Some("VERCEL_API_TOKEN not configured"),
                      deployments |-> Null] >>
           ELSE IF \E i \in 1..Len(PROJECTS) : entries[i] = Null
             THEN << [status |-> 500,
                      error |-> Some("Failed to fetch deployments"),
                      deployments |-> Null] >>
           ELSE << [status |-> 200,
                    error |-> Null,
                    deployments |->
                      Some([i \in 1..Len(PROJECTS) |-> The(entries[i])])] >>
  /\ UNCHANGED << platformVars, hubVars, consumerVars, adapterVars,
                  inputManager, virtualControls, touchState, menuPrev,
                  hubScene, games, fetchState, rendered, sinceMove, timers,
                  location, loopFrame, touchPoints, token, upstream >>

(***************************************************************************)
(* The touch handlers of createDpad, createStartButton, createActionButtons*)
(***************************************************************************)
\* The observer's record of a touch event, when there is an observer.
Logged(type, t) == IF touchLog = Null THEN Null ELSE Some(<< type, t >>)

\* What the three handlers of a control t write into HubControls.state.
OnTouchStart(touch, t) == touch \cup {t}
OnTouchEnd(touch, t) == touch \ {t}

\* Mutant: touchcancel leaves the press map as it is.
OnTouchCancelIgnored(touch, t) == touch

OnTouchCancel(touch, t) == touch \ {t}

\* Mutant: the touchstart handler also dispatches the keydown event of the
\* control, which the keyboard listeners of the page receive.
TouchStartSimulatesKey(t) ==
  /\ container
  /\ t \notin state
  /\ state' = state \cup {t}
  /\ keys' = keys \cup {IF t = "start" THEN "Enter" ELSE "Space"}
  /\ touchLog' = IF touchLog = Null THEN Null ELSE Some(<< "touchstart", t >>)
  /\ UNCHANGED << platformVars, enabled, isTouch, container, pollLoops,
                  gamepadState, prevGamepadButtons, prevEdge, prevDirEdge,
                  styles, initOptions, inputManager, menuVars,
                  consumerVars,
                  adapter, prevButtons, inputNow, inputBefore, fired, input,
                  analog >>

\* A touch point ends or is cancelled on the control on which it started, so
\* touchend and touchcancel reach a control that is pressed.
TouchStart(t) ==
  /\ container
  /\ t \notin state
  /\ state' = OnTouchStart(state, t)
  /\ touchLog' = Logged("touchstart", t)
  /\ UNCHANGED << platformVars, enabled, isTouch, container, pollLoops,
                  gamepadState, prevGamepadButtons, prevEdge, prevDirEdge,
                  styles, initOptions, inputManager, menuVars,
                  consumerVars,
                  adapterVars >>

TouchEnd(t) ==
  /\ container
  /\ t \in state
  /\ state' = OnTouchEnd(state, t)
  /\ touchLog' = Logged("touchend", t)
  /\ UNCHANGED << platformVars, enabled, isTouch, container, pollLoops,
                  gamepadState, prevGamepadButtons, prevEdge, prevDirEdge,
                  styles, initOptions, inputManager, menuVars,
                  consumerVars,
                  adapterVars >>

TouchCancel(t) ==
  /\ container
  /\ t \in state
  /\ state' = OnTouchCancel(state, t)
  /\ touchLog' = Logged("touchcancel", t)
  /\ UNCHANGED << platformVars, enabled, isTouch, container, pollLoops,
                  gamepadState, prevGamepadButtons, prevEdge, prevDirEdge,
                  styles, initOptions, inputManager, menuVars,
                  consumerVars,
                  adapterVars >>

(***************************************************************************)
(* The same handlers under several fingers. A control receives touchstart  *)
(* for every touch point that starts on it, and touchend or touchcancel    *)
(* for every one of them that ends or is cancelled; up to MaxFingers touch *)
(* points are on one control at a time.                                    *)
(***************************************************************************)
MaxFingers == 2

\* The controls the fingers reach.
FingerControls == {"up", "down", "a", "b"}

FingerDown(t) ==
  /\ container
  /\ touchPoints # Null
  /\ The(touchPoints)[t] < MaxFingers
  /\ touchPoints' = Some([The(touchPoints) EXCEPT ![t] = @ + 1])
  /\ state' = OnTouchStart(state, t)
  /\ touchLog' = Logged("touchstart", t)
  /\ UNCHANGED << platformVars, enabled, isTouch, container, pollLoops,
                  gamepadState, prevGamepadButtons, prevEdge, prevDirEdge,
                  styles, initOptions, inputManager, consumerVars,
                  adapterVars, virtualControls, touchState, menuPrev,
                  hubScene, games, fetchState, rendered, sinceMove, timers,
                  location, loopFrame, token, upstream, responses >>

\* The finger is lifted (touchend) or the touch is cancelled (touchcancel).
FingerUp(t, cancelled) ==
  /\ container
  /\ touchPoints # Null
  /\ The(touchPoints)[t] > 0
  /\ touchPoints' = Some([The(touchPoints) EXCEPT ![t] = @ - 1])
  /\ state' = IF cancelled THEN OnTouchCancel(state, t)
              ELSE OnTouchEnd(state, t)
  /\ touchLog' = Logged(IF cancelled THEN "touchcancel" ELSE "touchend", t)
  /\ UNCHANGED << platformVars, enabled, isTouch, container, pollLoops,
                  gamepadState, prevGamepadButtons, prevEdge, prevDirEdge,
                  styles, initOptions, inputManager, consumerVars,
                  adapterVars, virtualControls, touchState, menuPrev,
                  hubScene, games, fetchState, rendered, sinceMove, timers,
                  location, loopFrame, token, upstream, responses >>

(***************************************************************************)
(* A consumer's animation frame. The consumer follows one usage for every  *)
(* button of the vocabulary in every frame:                                *)
(*   "P"   justPressed(b)                                                  *)
(*   "PR"  justPressed(b); justReleased(b)                                 *)
(*   "RP"  justReleased(b); justPressed(b)                                 *)
(*   "PP"  justPressed(b); justPressed(b)                                  *)
(* A frame is one callback: no event or poll runs between its calls.       *)
(***************************************************************************)
Usages == {"P", "PR", "RP", "PP"}

CallsOf(u) ==
  CASE u = "P"  -> << "justPressed" >>
    [] u = "PR" -> << "justPressed", "justReleased" >>
    [] u = "RP" -> << "justReleased", "justPressed" >>
    [] u = "PP" -> << "justPressed", "justPressed" >>

Call(fn, cache, button) ==
  IF fn = "justPressed" THEN JustPressed(cache, button)
  ELSE JustReleased(cache, button)

RECURSIVE RunCalls(_, _, _)
RunCalls(cache, button, fns) ==
  IF fns = <<>> THEN [cache |-> cache, rets |-> <<>>]
  ELSE LET r    == Call(Head(fns), cache, button)
           rest == RunCalls(r.cache, button, Tail(fns))
       IN  [cache |-> rest.cache, rets |-> <<r.ret>> \o rest.rets]

\* A call about b writes this['_prev_' + b] only, so the calls of a frame are
\* run button by button, each from the cache the frame started with.
ConsumerFrame ==
  /\ enabled
  /\ LET run == {<<b, RunCalls(prevEdge, b, CallsOf(usage))>> : b \in Buttons}
     IN  /\ prevEdge' = {p[1] : p \in {q \in run : q[1] \in q[2].cache}}
         /\ results' = [k \in 1..Len(CallsOf(usage)) |->
                          {p[1] : p \in {q \in run : q[2].rets[k]}}]
  /\ seenBefore' = seenNow
  /\ seenNow' = GetState.buttons \cap Buttons
  /\ UNCHANGED << platformVars, enabled, isTouch, container, pollLoops,
                  state, gamepadState, prevGamepadButtons, restVars, usage,
                  snapshot, adapterVars >>

(***************************************************************************)
(* Spec: HubControls with a gamepad, touch controls and a consumer that    *)
(* calls justPressed(b) once per frame for every button b.                 *)
(* SpecBoth: the consumer calls justPressed(b) and justReleased(b) once    *)
(* each per frame, in one of the two orders.                               *)
(* SpecTwice: the consumer calls justPressed(b) twice per frame.           *)
(***************************************************************************)
AdapterInitial ==
  /\ keys = {}
  /\ prevButtons = {}
  /\ inputNow = {}
  /\ inputBefore = {}
  /\ fired = Null
  /\ input = Null
  /\ analog = Null

HubInitial ==
  /\ enabled = FALSE
  /\ isTouch = FALSE
  /\ container = FALSE
  /\ pollLoops = 0
  /\ state = {}
  /\ gamepadState = [connected |-> FALSE, axes |-> <<0, 0, 0, 0>>,
                     buttons |-> {}]
  /\ prevGamepadButtons = {}
  /\ prevEdge = {}
  /\ prevDirEdge = {}
  /\ styles = FALSE
  /\ initOptions = Null
  /\ touchLog = Null

\* new InputManager(): the constructor of the menu's input manager.
MenuInitial ==
  inputManager = [connected |-> FALSE, axes |-> <<0, 0, 0, 0>>,
                  buttons |-> {}, prevGamepadButtons |-> {}]

\* new VirtualControls(input), on a device with or without touch, and new
\* HubScene(canvas, input): no card has a date, and the constructor has
\* started fetchDeploymentDates, which waits for the response.
ScenePage(touch) ==
  /\ virtualControls = [enabled |-> touch, dpadState |-> {}, buttonState |-> {}]
  /\ touchState = [direction |-> [x |-> 0, y |-> 0], buttons |-> {}]
  /\ menuPrev = {}
  /\ hubScene = [selectedIndex |-> 0, selectCooldown |-> 0,
                 isTransitioning |-> FALSE, transitionAlpha |-> 0]
  /\ games = [i \in 1..Len(GameIds) |-> [id |-> GameIds[i], lastUpdate |-> Null]]
  /\ fetchState = [at |-> "fetch", error |-> Null]
  /\ rendered = Null
  /\ sinceMove = Null
  /\ timers = <<>>
  /\ location = <<>>

\* The same with no call of gameLoop running, one finger at a time on the
\* screen, and no request to the serverless function.
SceneInitialWith(touch) ==
  /\ ScenePage(touch)
  /\ loopFrame = Null
  /\ touchPoints = Null
  /\ token = TRUE
  /\ upstream = <<>>
  /\ responses = <<>>

SceneInitial == SceneInitialWith(FALSE)

InitWith(usages) ==
  /\ gamepads = [i \in Slots |-> Null]
  /\ events = <<>>
  /\ HubInitial
  /\ MenuInitial
  /\ usage \in usages
  /\ seenNow = {}
  /\ seenBefore = {}
  /\ snapshot = Null
  /\ results = <<>>
  /\ AdapterInitial
  /\ SceneInitial
  /\ adapter = "phaser"

Next ==
  \/ \E i \in EnvSlots : Plug(i)
  \/ \E i \in Slots : Unplug(i)
  \/ \E i \in Slots, b \in EnvPadButtons : PadPress(i, b)
  \/ \E i \in Slots, b \in EnvPadButtons : PadRelease(i, b)
  \/ \E t \in BOOLEAN : HubInit(t, Null)
  \/ DispatchGamepadEvent
  \/ PollGamepad
  \/ \E t \in EnvTouchButtons : TouchStart(t)
  \/ \E t \in EnvTouchButtons : TouchEnd(t)
  \/ \E t \in EnvTouchButtons : TouchCancel(t)
  \/ ConsumerFrame

Init == InitWith({"P"})
InitBoth == InitWith({"PR", "RP"})
InitTwice == InitWith({"PP"})

Spec == Init /\ [][Next]_vars
SpecBoth == InitBoth /\ [][Next]_vars
SpecTwice == InitTwice /\ [][Next]_vars

(***************************************************************************)
(* SpecFrames: Spec with a consumer whose animation frames keep coming.    *)
(***************************************************************************)
SpecFrames == Init /\ [][Next]_vars /\ WF_vars(ConsumerFrame)

(***************************************************************************)
(* SpecAdapter: a page with HubControls, one adapter and a keyboard. Every *)
(* frame the game calls justPressed(n) for every input name n of the       *)
(* integration guide and then endFrame(). The gamepad of the player takes  *)
(* slot 0.                                                                 *)
(***************************************************************************)
\* INTEGRATION.md, Quick Reference: directions, buttons and aliases.
InputNames ==
  {"left", "right", "up", "down"} \cup Buttons
    \cup {"jump", "confirm", "cancel", "interact", "pause"}

KeyDown(k) ==
  /\ k \notin keys
  /\ keys' = keys \cup {k}
  /\ UNCHANGED << platformVars, hubVars, consumerVars, inputManager, menuVars,
                  adapter, prevButtons, inputNow, inputBefore, fired, input,
                  analog >>

KeyUp(k) ==
  /\ k \in keys
  /\ keys' = keys \ {k}
  /\ UNCHANGED << platformVars, hubVars, consumerVars, inputManager, menuVars,
                  adapter, prevButtons, inputNow, inputBefore, fired, input,
                  analog >>

AdapterFrame ==
  /\ fired' = Some({n \in InputNames : AdapterJustPressed(adapter, n)})
  /\ prevButtons' = EndFrame(adapter)
  /\ inputBefore' = inputNow
  /\ inputNow' = GetInput(adapter).on
  /\ UNCHANGED << platformVars, hubVars, consumerVars, inputManager, menuVars,
                  adapter, keys, input, analog >>

InitAdapter ==
  /\ gamepads = [i \in Slots |-> Null]
  /\ events = <<>>
  /\ HubInitial
  /\ MenuInitial
  /\ usage = "P"
  /\ seenNow = {}
  /\ seenBefore = {}
  /\ snapshot = Null
  /\ results = <<>>
  /\ AdapterInitial
  /\ SceneInitial
  /\ adapter \in Adapters

NextAdapter ==
  \/ Plug(0)
  \/ \E i \in Slots : Unplug(i)
  \/ \E i \in Slots, b \in EnvPadButtons : PadPress(i, b)
  \/ \E i \in Slots, b \in EnvPadButtons : PadRelease(i, b)
  \/ \E t \in BOOLEAN : HubInit(t, Null)
  \/ DispatchGamepadEvent
  \/ PollGamepad
  \/ \E t \in EnvTouchButtons : TouchStart(t)
  \/ \E t \in EnvTouchButtons : TouchEnd(t)
  \/ \E t \in EnvTouchButtons : TouchCancel(t)
  \/ \E k \in EnvKeys : KeyDown(k)
  \/ \E k \in EnvKeys : KeyUp(k)
  \/ AdapterFrame

SpecAdapter == InitAdapter /\ [][NextAdapter]_vars

(***************************************************************************)
(* SpecMerge: getState() as a function of the state it reads. The initial  *)
(* states are the values of HubControls.state and HubControls.gamepadState *)
(* after init, over the stick values of AxisValues on the left stick, the  *)
(* four D-pad buttons and the four touch segments; a disconnected          *)
(* gamepadState keeps the values of its last poll.                         *)
(***************************************************************************)
Dirs == {"up", "down", "left", "right"}

InitMerge ==
  /\ gamepads = [i \in Slots |-> Null]
  /\ events = <<>>
  /\ enabled = TRUE
  /\ isTouch \in BOOLEAN
  /\ container = isTouch
  /\ pollLoops = 1
  /\ state \in (IF isTouch THEN SUBSET Dirs ELSE {{}})
  /\ gamepadState \in
       [ connected : BOOLEAN,
         axes      : {<<x, y, 0, 0>> : x \in AxisValues, y \in AxisValues},
         buttons   : SUBSET Dirs ]
  /\ prevGamepadButtons = {}
  /\ prevEdge = {}
  /\ prevDirEdge = {}
  /\ styles = isTouch
  /\ initOptions = Null
  /\ touchLog = Null
  /\ MenuInitial
  /\ usage = "P"
  /\ seenNow = {}
  /\ seenBefore = {}
  /\ snapshot = Null
  /\ results = <<>>
  /\ AdapterInitial
  /\ SceneInitial
  /\ adapter = "phaser"

GetStateCall ==
  /\ enabled
  /\ snapshot' = Some(GetState)
  /\ UNCHANGED << platformVars, hubVars, inputManager, menuVars, usage, seenNow,
                  seenBefore, results, adapterVars >>

NextMerge == GetStateCall

SpecMerge == InitMerge /\ [][NextMerge]_vars

(***************************************************************************)
(* SpecButtons: getState() over the buttons it merges. The initial states  *)
(* are the values of HubControls.state and HubControls.gamepadState after  *)
(* init: any set of pressed gamepad buttons of the ten logical names, left *)
(* by the latest poll, and any set of pressed touch buttons.               *)
(***************************************************************************)
TouchButtons == {"a", "b", "start"}

InitButtons ==
  /\ gamepads = [i \in Slots |-> Null]
  /\ events = <<>>
  /\ enabled = TRUE
  /\ isTouch \in BOOLEAN
  /\ container = isTouch
  /\ pollLoops = 1
  /\ state \in (IF isTouch THEN SUBSET TouchButtons ELSE {{}})
  /\ gamepadState \in
       [ connected : BOOLEAN,
         axes      : {<<0, 0, 0, 0>>},
         buttons   : SUBSET Buttons ]
  /\ prevGamepadButtons = {}
  /\ prevEdge = {}
  /\ prevDirEdge = {}
  /\ styles = isTouch
  /\ initOptions = Null
  /\ touchLog = Null
  /\ MenuInitial
  /\ usage = "P"
  /\ seenNow = {}
  /\ seenBefore = {}
  /\ snapshot = Null
  /\ results = <<>>
  /\ AdapterInitial
  /\ SceneInitial
  /\ adapter = "phaser"

NextButtons == GetStateCall

SpecButtons == InitButtons /\ [][NextButtons]_vars

(***************************************************************************)
(* SpecTouch: the seven touch controls of an initialised touch device and  *)
(* an observer that records the latest touch event.                        *)
(***************************************************************************)
InitTouch ==
  /\ gamepads = [i \in Slots |-> Null]
  /\ events = <<>>
  /\ enabled = TRUE
  /\ isTouch = TRUE
  /\ container = TRUE
  /\ pollLoops = 1
  /\ state = {}
  /\ gamepadState = [connected |-> FALSE, axes |-> <<0, 0, 0, 0>>,
                     buttons |-> {}]
  /\ prevGamepadButtons = {}
  /\ prevEdge = {}
  /\ prevDirEdge = {}
  /\ styles = TRUE
  /\ initOptions = Null
  /\ touchLog = Some(<< "none", "none" >>)
  /\ MenuInitial
  /\ usage = "P"
  /\ seenNow = {}
  /\ seenBefore = {}
  /\ snapshot = Null
  /\ results = <<>>
  /\ AdapterInitial
  /\ SceneInitial
  /\ adapter = "phaser"

NextTouch ==
  \/ \E t \in TouchNames : TouchStart(t)
  \/ \E t \in TouchNames : TouchEnd(t)
  \/ \E t \in TouchNames : TouchCancel(t)

SpecTouch == InitTouch /\ [][NextTouch]_vars

(***************************************************************************)
(* SpecPoll: the two gamepad pollers of the repository over what the       *)
(* platform can hold in its four slots: each slot is empty or holds a      *)
(* device with some of the environment's buttons pressed. No poll has run  *)
(* yet, and the connected flag of each poller is what its gamepadconnected *)
(* and gamepaddisconnected listeners have left.                            *)
(***************************************************************************)
EnvDevices ==
  {Some([axes |-> <<0, 0, 0, 0>>, buttons |-> B]) : B \in SUBSET EnvPadButtons}

InitPoll ==
  /\ gamepads \in [Slots -> {Null} \cup EnvDevices]
  /\ events = <<>>
  /\ enabled = TRUE
  /\ isTouch = FALSE
  /\ container = FALSE
  /\ pollLoops = 1
  /\ state = {}
  /\ gamepadState \in [connected : BOOLEAN, axes : {<<0, 0, 0, 0>>},
                       buttons : {{}}]
  /\ prevGamepadButtons = {}
  /\ prevEdge = {}
  /\ prevDirEdge = {}
  /\ styles = FALSE
  /\ initOptions = Null
  /\ touchLog = Null
  /\ inputManager \in [connected : BOOLEAN, axes : {<<0, 0, 0, 0>>},
                       buttons : {{}}, prevGamepadButtons : {{}}]
  /\ usage = "P"
  /\ seenNow = {}
  /\ seenBefore = {}
  /\ snapshot = Null
  /\ results = <<>>
  /\ AdapterInitial
  /\ SceneInitial
  /\ adapter = "phaser"

NextPoll ==
  \/ PollGamepad
  \/ MenuPollGamepad

SpecPoll == InitPoll /\ [][NextPoll]_vars

(***************************************************************************)
(* SpecConfig: a page that passes a deadzone option to HubControls.init.   *)
(* A gamepad sits in slot 0 with its left stick held at a value of         *)
(* AxisValues on x; the page calls init with or without the option, the    *)
(* polling loop runs and the page calls getState().                        *)
(***************************************************************************)
\* The values of options.deadzone the page may pass, in hundredths.
DeadzoneOptions == {5, 30}

InitOptions == {Null} \cup {Some(d) : d \in DeadzoneOptions}

InitConfig ==
  /\ gamepads \in
       {[i \in Slots |->
           IF i = 0 THEN Some([axes |-> <<x, 0, 0, 0>>, buttons |-> {}])
           ELSE Null] : x \in AxisValues}
  /\ events = <<>>
  /\ HubInitial
  /\ MenuInitial
  /\ usage = "P"
  /\ seenNow = {}
  /\ seenBefore = {}
  /\ snapshot = Null
  /\ results = <<>>
  /\ AdapterInitial
  /\ SceneInitial
  /\ adapter = "phaser"

NextConfig ==
  \/ \E t \in BOOLEAN, o \in InitOptions : HubInit(t, o)
  \/ PollGamepad
  \/ GetStateCall

SpecConfig == InitConfig /\ [][NextConfig]_vars

(***************************************************************************)
(* SpecCalls: a page with HubControls, keyboard listeners of its own and   *)
(* a consumer that calls getState, justPressed, justReleased and           *)
(* justPressedDirection one call at a time. The user touches START,        *)
(* presses key A and presses a on the gamepad.                             *)
(***************************************************************************)
JustPressedCall(b) ==
  /\ enabled
  /\ prevEdge' = JustPressed(prevEdge, b).cache
  /\ UNCHANGED << platformVars, enabled, isTouch, container, pollLoops,
                  state, gamepadState, prevGamepadButtons, restVars,
                  consumerVars, adapterVars >>

JustReleasedCall(b) ==
  /\ enabled
  /\ prevEdge' = JustReleased(prevEdge, b).cache
  /\ UNCHANGED << platformVars, enabled, isTouch, container, pollLoops,
                  state, gamepadState, prevGamepadButtons, restVars,
                  consumerVars, adapterVars >>

JustPressedDirectionCall(d) ==
  /\ enabled
  /\ prevDirEdge' = JustPressedDirection(prevDirEdge, d).cache
  /\ UNCHANGED << platformVars, enabled, isTouch, container, pollLoops,
                  state, gamepadState, prevGamepadButtons, prevEdge, styles,
                  initOptions, touchLog, inputManager, menuVars,
                  consumerVars,
                  adapterVars >>

NextCalls ==
  \/ \E i \in EnvSlots : Plug(i)
  \/ \E i \in Slots : Unplug(i)
  \/ \E i \in Slots : PadPress(i, "a")
  \/ \E i \in Slots : PadRelease(i, "a")
  \/ \E t \in BOOLEAN : HubInit(t, Null)
  \/ DispatchGamepadEvent
  \/ PollGamepad
  \/ TouchStart("start")
  \/ TouchEnd("start")
  \/ TouchCancel("start")
  \/ KeyDown("KeyA")
  \/ KeyUp("KeyA")
  \/ GetStateCall
  \/ \E b \in Buttons : JustPressedCall(b)
  \/ \E b \in Buttons : JustReleasedCall(b)
  \/ \E d \in Dirs : JustPressedDirectionCall(d)

SpecCalls == Init /\ [][NextCalls]_vars

(***************************************************************************)
(* SpecLife: an embedding page that initialises HubControls, destroys it   *)
(* and may initialise it again, while the platform and the user go on.     *)
(***************************************************************************)
NextLife ==
  \/ \E i \in EnvSlots : Plug(i)
  \/ \E i \in Slots : Unplug(i)
  \/ \E i \in Slots, b \in EnvPadButtons : PadPress(i, b)
  \/ \E i \in Slots, b \in EnvPadButtons : PadRelease(i, b)
  \/ \E t \in BOOLEAN : HubInit(t, Null)
  \/ Destroy
  \/ DispatchGamepadEvent
  \/ PollGamepad
  \/ \E t \in EnvTouchButtons : TouchStart(t)
  \/ \E t \in EnvTouchButtons : TouchEnd(t)
  \/ \E t \in EnvTouchButtons : TouchCancel(t)

SpecLife == Init /\ [][NextLife]_vars

(***************************************************************************)
(* SpecAnalog: a Phaser game that reads the sticks. A gamepad sits in slot *)
(* 0 with both sticks deflected, within the deadzone or beyond it; the     *)
(* page calls init, the polling loop runs, the player lets go of the       *)
(* sticks, and the game calls getState() and getAnalog().                  *)
(***************************************************************************)
\* The player lets go of both sticks of the device in slot i.
StickRelease(i) ==
  /\ gamepads[i] # Null
  /\ The(gamepads[i]).axes # <<0, 0, 0, 0>>
  /\ gamepads' = [gamepads EXCEPT ![i][1].axes = <<0, 0, 0, 0>>]
  /\ UNCHANGED << events, hubVars, consumerVars, adapterVars, inputManager,
                  menuVars >>

GetAnalogCall ==
  /\ adapter = "phaser"
  /\ analog' = Some(PhaserAnalog)
  /\ UNCHANGED << platformVars, hubVars, consumerVars, inputManager, menuVars,
                  adapter, keys, prevButtons, inputNow, inputBefore, fired,
                  input >>

InitAnalog ==
  /\ gamepads \in
       {[i \in Slots |->
           IF i = 0 THEN Some([axes |-> <<x, y, rx, ry>>, buttons |-> {}])
           ELSE Null] :
          x \in AxisValues, y \in {0, 15}, rx \in {0, -80}, ry \in {0, 10}}
  /\ events = <<>>
  /\ HubInitial
  /\ MenuInitial
  /\ usage = "P"
  /\ seenNow = {}
  /\ seenBefore = {}
  /\ snapshot = Null
  /\ results = <<>>
  /\ AdapterInitial
  /\ SceneInitial
  /\ adapter = "phaser"

NextAnalog ==
  \/ \E t \in BOOLEAN : HubInit(t, Null)
  \/ PollGamepad
  \/ StickRelease(0)
  \/ GetStateCall
  \/ GetAnalogCall

SpecAnalog == InitAnalog /\ [][NextAnalog]_vars

(***************************************************************************)
(* SpecInput: getInput() of the three adapters as a function of what it    *)
(* reads. The initial states are an adapter, the held keys among InputKeys *)
(* and a HubControls, initialised or destroyed, whose latest poll read a   *)
(* gamepad with the left stick neutral or pushed half way down and some of *)
(* the buttons a and start held; the game calls getInput().                *)
(***************************************************************************)
\* Keys the adapters bind: A is left, J is the confirm key of the Phaser
\* adapter, I its start key and L its select key (keyMapping).
InputKeys == {"KeyA", "KeyJ", "KeyI", "KeyL"}

GetInputCall ==
  /\ input' = Some(GetInput(adapter))
  /\ UNCHANGED << platformVars, hubVars, consumerVars, inputManager, menuVars,
                  adapter, keys, prevButtons, inputNow, inputBefore, fired,
                  analog >>

InitInput ==
  /\ gamepads = [i \in Slots |-> Null]
  /\ events = <<>>
  /\ enabled \in BOOLEAN
  /\ isTouch = FALSE
  /\ container = FALSE
  /\ pollLoops = 1
  /\ state = {}
  /\ gamepadState \in [connected : BOOLEAN,
                       axes : {<<0, 0, 0, 0>>, <<0, 50, 0, 0>>},
                       buttons : SUBSET {"a", "start"}]
  /\ prevGamepadButtons = {}
  /\ prevEdge = {}
  /\ prevDirEdge = {}
  /\ styles = FALSE
  /\ initOptions = Null
  /\ touchLog = Null
  /\ MenuInitial
  /\ usage = "P"
  /\ seenNow = {}
  /\ seenBefore = {}
  /\ snapshot = Null
  /\ results = <<>>
  /\ keys \in SUBSET InputKeys
  /\ prevButtons = {}
  /\ inputNow = {}
  /\ inputBefore = {}
  /\ fired = Null
  /\ input = Null
  /\ analog = Null
  /\ SceneInitial
  /\ adapter \in Adapters

NextInput == GetInputCall

SpecInput == InitInput /\ [][NextInput]_vars

(***************************************************************************)
(* SpecMenu: the menu page under its game loop. A gamepad sits in slot 0;  *)
(* the player presses and releases the keys D and Enter, pushes the left   *)
(* stick to the left and lets it go and, on a touch device, touches the    *)
(* D-pad's up button. Frames follow each other after 0.05 s, 0.1 s or      *)
(* 0.3 s, and the deployment dates have not arrived.                       *)
(***************************************************************************)
\* The time between two animation frames, in hundredths of a second.
FrameTimes == {5, 10, 30}

MenuKeys == {"KeyD", "Enter"}

\* The player pushes the left stick of the device in slot i to the left.
StickPush(i) ==
  /\ gamepads[i] # Null
  /\ The(gamepads[i]).axes = <<0, 0, 0, 0>>
  /\ gamepads' = [gamepads EXCEPT ![i][1].axes = <<-80, 0, 0, 0>>]
  /\ UNCHANGED << events, hubVars, consumerVars, adapterVars, inputManager,
                  menuVars >>

InitMenu ==
  /\ gamepads = [i \in Slots |-> IF i = 0 THEN Some(NeutralPad) ELSE Null]
  /\ events = <<>>
  /\ HubInitial
  /\ MenuInitial
  /\ usage = "P"
  /\ seenNow = {}
  /\ seenBefore = {}
  /\ snapshot = Null
  /\ results = <<>>
  /\ keys = {}
  /\ prevButtons = {}
  /\ inputNow = {}
  /\ inputBefore = {}
  /\ fired = Null
  /\ input = Null
  /\ analog = Null
  /\ adapter = "phaser"
  /\ \E touch \in BOOLEAN : SceneInitialWith(touch)

NextMenu ==
  \/ \E elapsed \in FrameTimes : MenuFrame(elapsed)
  \/ \E k \in MenuKeys : MenuKeyDown(k)
  \/ \E k \in MenuKeys : MenuKeyUp(k)
  \/ StickPush(0)
  \/ StickRelease(0)
  \/ \E pressed \in BOOLEAN : HandleDpadPress("up", pressed)
  \/ TimerFires

SpecMenu == InitMenu /\ [][NextMenu]_vars

(***************************************************************************)
(* SpecFetch: the menu page while its deployment dates are fetched. The    *)
(* request fails or is answered at any point between frames, with any body *)
(* of Bodies; the player presses and releases Enter. Frames are 0.1 s      *)
(* apart.                                                                  *)
(***************************************************************************)
InitFetch ==
  /\ gamepads = [i \in Slots |-> Null]
  /\ events = <<>>
  /\ HubInitial
  /\ MenuInitial
  /\ usage = "P"
  /\ seenNow = {}
  /\ seenBefore = {}
  /\ snapshot = Null
  /\ results = <<>>
  /\ keys = {}
  /\ prevButtons = {}
  /\ inputNow = {}
  /\ inputBefore = {}
  /\ fired = Null
  /\ input = Null
  /\ analog = Null
  /\ adapter = "phaser"
  /\ SceneInitial

NextFetch ==
  \/ MenuFrame(MaxDt)
  \/ MenuKeyDown("Enter")
  \/ MenuKeyUp("Enter")
  \/ TimerFires
  \/ FetchRejects
  \/ \E ok \in BOOLEAN : FetchResponds(ok)
  \/ BodyRejects
  \/ \E data \in Bodies : BodyResolves(data)

SpecFetch == InitFetch /\ [][NextFetch]_vars

(***************************************************************************)
(* SpecLoop: the game loop of the menu statement by statement. Between two *)
(* frames the player presses and releases the keys D and Enter.            *)
(***************************************************************************)
InitLoop == InitFetch

NextLoop ==
  \/ LoopUpdate
  \/ \E action \in MenuActions : LoopJustPressed(action)
  \/ LoopEndFrame
  \/ loopFrame = Null /\ \E k \in MenuKeys : MenuKeyDown(k)
  \/ loopFrame = Null /\ \E k \in MenuKeys : MenuKeyUp(k)

SpecLoop == InitLoop /\ [][NextLoop]_vars

(***************************************************************************)
(* SpecDisconnect: the menu page with a gamepad that comes and goes. The   *)
(* player presses and releases its A button, pushes its left stick to the  *)
(* left and lets it go, and unplugs and plugs the device; frames are 0.1 s *)
(* apart.                                                                  *)
(***************************************************************************)
NextDisconnect ==
  \/ MenuFrame(MaxDt)
  \/ PadPress(0, "a")
  \/ PadRelease(0, "a")
  \/ StickPush(0)
  \/ StickRelease(0)
  \/ Unplug(0)
  \/ Plug(0)
  \/ MenuGamepadEvent
  \/ TimerFires

SpecDisconnect == InitMenu /\ [][NextDisconnect]_vars

(***************************************************************************)
(* SpecScene: the menu page with the scene of src/hub/HubScene.js. The     *)
(* player presses and releases the keys D and Enter; frames are 0.1 s      *)
(* apart.                                                                  *)
(***************************************************************************)
NextScene ==
  \/ SceneFrame(MaxDt)
  \/ \E k \in MenuKeys : MenuKeyDown(k)
  \/ \E k \in MenuKeys : MenuKeyUp(k)

SpecScene == InitFetch /\ [][NextScene]_vars

(***************************************************************************)
(* SpecHandler: one request to /api/deployments, with or without the token *)
(* in the environment and with any replies of the upstream API.            *)
(***************************************************************************)
InitHandler ==
  /\ gamepads = [i \in Slots |-> Null]
  /\ events = <<>>
  /\ HubInitial
  /\ MenuInitial
  /\ usage = "P"
  /\ seenNow = {}
  /\ seenBefore = {}
  /\ snapshot = Null
  /\ results = <<>>
  /\ adapter = "phaser"
  /\ AdapterInitial
  /\ ScenePage(FALSE)
  /\ loopFrame = Null
  /\ touchPoints = Null
  /\ token \in BOOLEAN
  /\ upstream \in [1..Len(PROJECTS) -> Upstreams]
  /\ responses = <<>>

NextHandler == Handler

SpecHandler == InitHandler /\ [][NextHandler]_vars

(***************************************************************************)
(* SpecFingers: the touch controls of an initialised touch device under    *)
(* several fingers.                                                        *)
(***************************************************************************)
InitFingers ==
  /\ gamepads = [i \in Slots |-> Null]
  /\ events = <<>>
  /\ enabled = TRUE
  /\ isTouch = TRUE
  /\ container = TRUE
  /\ pollLoops = 1
  /\ state = {}
  /\ gamepadState = [connected |-> FALSE, axes |-> <<0, 0, 0, 0>>,
                     buttons |-> {}]
  /\ prevGamepadButtons = {}
  /\ prevEdge = {}
  /\ prevDirEdge = {}
  /\ styles = TRUE
  /\ initOptions = Null
  /\ touchLog = Null
  /\ MenuInitial
  /\ usage = "P"
  /\ seenNow = {}
  /\ seenBefore = {}
  /\ snapshot = Null
  /\ results = <<>>
  /\ AdapterInitial
  /\ adapter = "phaser"
  /\ ScenePage(FALSE)
  /\ loopFrame = Null
  /\ touchPoints = Some([t \in FingerControls |-> 0])
  /\ token = TRUE
  /\ upstream = <<>>
  /\ responses = <<>>

NextFingers ==
  \/ \E t \in FingerControls : FingerDown(t)
  \/ \E t \in FingerControls, cancelled \in BOOLEAN : FingerUp(t, cancelled)

SpecFingers == InitFingers /\ [][NextFingers]_vars

(***************************************************************************)
(* Edge detection of HubControls.                                          *)
(***************************************************************************)
\* Frame-to-frame edges of the merged button b, as the consumer saw them.
Rising(b) == b \in seenNow /\ b \notin seenBefore
Falling(b) == b \notin seenNow /\ b \in seenBefore

\* Position of a call in the usage.
CallIndex(fn) ==
  CHOOSE k \in 1..Len(CallsOf(usage)) : CallsOf(usage)[k] = fn

\* C1: with justPressed(b) called exactly once per frame, the call returns
\* true in exactly the frames where getState().buttons[b] is true and was
\* false in the frame before (or there was no frame before); on the later
\* frames of the same hold it returns false.
C1_JustPressedOncePerEdge ==
  (usage = "P" /\ results # <<>>) =>
    \A b \in Buttons : (b \in results[1]) <=> Rising(b)

\* A frame in which a is in the second or a later frame of a hold and gets
\* false, while start has just been pressed and gets true.
C1_Witness ==
  /\ usage = "P" /\ results # <<>>
  /\ "a" \in seenNow /\ "a" \in seenBefore /\ "a" \notin results[1]
  /\ Rising("start") /\ "start" \in results[1]

\* C2: with justPressed(b) and justReleased(b) each called once per frame,
\* in either order, justReleased(b) returns true exactly on the frames where
\* b is not pressed and was pressed the frame before, and justPressed(b)
\* exactly on the frames where b is pressed and was not the frame before.
C2_BothEdgesReported ==
  (usage \in {"PR", "RP"} /\ results # <<>>) =>
    \A b \in Buttons :
      /\ (b \in results[CallIndex("justPressed")]) <=> Rising(b)
      /\ (b \in results[CallIndex("justReleased")]) <=> Falling(b)

\* C3: when a was false at the previous frame and is true now, the first
\* justPressed('a') of the frame returns true and a second call in the same
\* frame, on the same input, returns false.
C3_SecondCallDoesNotFire ==
  (usage = "PP" /\ results # <<>> /\ Rising("a")) =>
    ("a" \in results[1] /\ "a" \notin results[2])

\* The frame has just run on a press of the gamepad's a button.
C3_Witness ==
  /\ usage = "PP" /\ results # <<>> /\ Rising("a")
  /\ "a" \in gamepadState.buttons /\ "a" \notin state
  /\ "a" \in results[1] /\ "a" \notin results[2]

\* C5: whenever gamepadState.connected is false, every logical button of
\* getState() is its touch contribution alone: the touch state for a, b and
\* start, false for the others.
C5_DisconnectedPadContributesNothing ==
  ~gamepadState.connected =>
    \A b \in Buttons :
      (b \in GetState.buttons) <=> (b \in {"a", "b", "start"} /\ b \in state)

(***************************************************************************)
(* The direction merge of getState().                                      *)
(***************************************************************************)
\* The touch D-pad alone on an axis: (pos ? 1 : 0) - (neg ? 1 : 0).
TouchAxis(neg, pos) ==
  (IF pos \in state THEN 100 ELSE 0) - (IF neg \in state THEN 100 ELSE 0)

\* The digital sources alone on an axis: a pressed gamepad D-pad button of the
\* axis, else the touch segments.
DigitalAxis(neg, pos) ==
  IF pos \in gamepadState.buttons THEN 100
  ELSE IF neg \in gamepadState.buttons THEN -100
  ELSE TouchAxis(neg, pos)

StickX == gamepadState.axes[1]
StickY == gamepadState.axes[2]
Returned == The(snapshot)

\* C7: with a gamepad connected and the stick within the deadzone on an axis
\* (|axis| <= deadzone), the direction on that axis is what the touch segments
\* and the gamepad D-pad buttons give alone.
C7_StickInDeadzoneHasNoInfluence ==
  (snapshot # Null /\ gamepadState.connected) =>
    /\ Abs(StickX) <= deadzone =>
         Returned.direction.x = DigitalAxis("left", "right")
    /\ Abs(StickY) <= deadzone =>
         Returned.direction.y = DigitalAxis("up", "down")

\* The stick sits exactly on the deadzone while touch left is held.
C7_Witness ==
  /\ snapshot # Null /\ gamepadState.connected
  /\ StickX = deadzone /\ state = {"left"} /\ gamepadState.buttons = {}
  /\ Returned.direction.x = -100

\* C8: with a gamepad connected and exactly one D-pad button of an axis
\* pressed, the direction on that axis is -1 for left/up and +1 for
\* right/down, whatever the stick and the touch D-pad are.
C8_DpadButtonBeatsStickAndTouch ==
  (snapshot # Null /\ gamepadState.connected) =>
    /\ ("left" \in gamepadState.buttons /\ "right" \notin gamepadState.buttons)
         => Returned.direction.x = -100
    /\ ("right" \in gamepadState.buttons /\ "left" \notin gamepadState.buttons)
         => Returned.direction.x = 100
    /\ ("up" \in gamepadState.buttons /\ "down" \notin gamepadState.buttons)
         => Returned.direction.y = -100
    /\ ("down" \in gamepadState.buttons /\ "up" \notin gamepadState.buttons)
         => Returned.direction.y = 100

\* D-pad right with the stick at -0.8 and touch left held.
C8_Witness ==
  /\ snapshot # Null /\ gamepadState.connected
  /\ gamepadState.buttons = {"right"} /\ StickX = -80 /\ "left" \in state
  /\ Returned.direction.x = 100

\* C9: with a gamepad connected, no D-pad button of an axis pressed and the
\* stick beyond the deadzone on it, the direction on that axis is the stick
\* value clamped to [-1, 1], whatever the touch D-pad is, and the other axis
\* is what it would be with this stick axis neutral.
C9_StickBeyondDeadzoneOverridesTouch ==
  (snapshot # Null /\ gamepadState.connected) =>
    /\ (Abs(StickX) > deadzone /\ gamepadState.buttons \cap {"left", "right"} = {})
         => /\ Returned.direction.x = Clamp(StickX)
            /\ Returned.direction.y =
                 GetStateOf([gamepadState EXCEPT !.axes[1] = 0],
                            state, isTouch).direction.y
    /\ (Abs(StickY) > deadzone /\ gamepadState.buttons \cap {"up", "down"} = {})
         => /\ Returned.direction.y = Clamp(StickY)
            /\ Returned.direction.x =
                 GetStateOf([gamepadState EXCEPT !.axes[2] = 0],
                            state, isTouch).direction.x

\* The stick at 0.5 on x while touch left and touch up are held: x is the
\* stick, y stays the touch value.
C9_Witness ==
  /\ snapshot # Null /\ gamepadState.connected
  /\ StickX = 50 /\ StickY = 0 /\ gamepadState.buttons = {}
  /\ state = {"left", "up"}
  /\ Returned.direction = [x |-> 50, y |-> -100]

\* C10: with no gamepad connected, direction.x is (right ? 1 : 0) -
\* (left ? 1 : 0) and direction.y is (down ? 1 : 0) - (up ? 1 : 0) of the
\* touch press map.
C10_TouchAloneWhenDisconnected ==
  (snapshot # Null /\ ~gamepadState.connected) =>
    /\ Returned.direction.x = TouchAxis("left", "right")
    /\ Returned.direction.y = TouchAxis("up", "down")

\* Touch left alone gives {x: -1, y: 0}, although the disconnected gamepad
\* still holds a deflected stick and a pressed D-pad button.
C10_Witness ==
  /\ snapshot # Null /\ ~gamepadState.connected
  /\ state = {"left"}
  /\ StickX = 50 /\ StickY = -80 /\ "right" \in gamepadState.buttons
  /\ Returned.direction = [x |-> -100, y |-> 0]

\* C11: both components of getState().direction lie in [-1, 1], and both are
\* 0 when no touch D-pad segment is active and the gamepad is disconnected or
\* has both left-stick axes within the deadzone and no D-pad button pressed.
C11_DirectionBoundedAndNeutral ==
  snapshot # Null =>
    /\ Returned.direction.x \in -100..100
    /\ Returned.direction.y \in -100..100
    /\ ( /\ state \cap Dirs = {}
         /\ \/ ~gamepadState.connected
            \/ /\ Abs(StickX) <= deadzone
               /\ Abs(StickY) <= deadzone
               /\ gamepadState.buttons \cap Dirs = {} )
         => Returned.direction = [x |-> 0, y |-> 0]

\* A connected gamepad at rest with its stick on the two edges of the deadzone
\* and nothing touched: the direction is {x: 0, y: 0}.
C11_Witness ==
  /\ snapshot # Null /\ gamepadState.connected
  /\ StickX = deadzone /\ StickY = -deadzone
  /\ gamepadState.buttons = {} /\ state = {}
  /\ Returned.direction = [x |-> 0, y |-> 0]

(***************************************************************************)
(* The button merge of getState().                                         *)
(***************************************************************************)
\* C12: with a gamepad connected, a, b and start of getState().buttons are
\* the touch state OR the gamepad state of the button, and x, y, select, lb,
\* rb, lt and rt are the gamepad state of the button.
C12_ButtonsAreTouchOrGamepad ==
  (snapshot # Null /\ gamepadState.connected) =>
    /\ \A b \in TouchButtons :
         (b \in Returned.buttons) <=> (b \in state \/ b \in gamepadState.buttons)
    /\ \A b \in Buttons \ TouchButtons :
         (b \in Returned.buttons) <=> (b \in gamepadState.buttons)

\* start comes from touch alone, a from both sources, x and lt from the
\* gamepad alone, and b from neither.
C12_Witness ==
  /\ snapshot # Null /\ gamepadState.connected
  /\ state = {"start", "a"}
  /\ gamepadState.buttons = {"a", "x", "lt"}
  /\ Returned.buttons = {"start", "a", "x", "lt"}

(***************************************************************************)
(* The touch handlers.                                                     *)
(***************************************************************************)
\* C13: a touchcancel on a touch control leaves the press map that a touchend
\* on the same control at the same point would leave, and the control is not
\* pressed after it.
C13_CancelActsAsRelease ==
  [][\A t \in TouchNames :
       TouchCancel(t) => (state' = OnTouchEnd(state, t) /\ t \notin state')]_vars

\* The touch on left has just been cancelled while a is still held.
C13_Witness ==
  /\ touchLog = Some(<< "touchcancel", "left" >>)
  /\ state = {"a"}

(***************************************************************************)
(* Gamepad polling.                                                        *)
(***************************************************************************)
LowestOccupied == CHOOSE i \in Occupied : \A j \in Occupied : i <= j

\* A poller's gamepad state gs, as a poll has just left it, reports the
\* device of the lowest occupied slot, and connected exactly if there is one.
SelectsLowest(gs) ==
  /\ gs.connected <=> (Occupied # {})
  /\ Occupied # {} =>
       /\ gs.axes = The(gamepads[LowestOccupied]).axes
       /\ gs.buttons = The(gamepads[LowestOccupied]).buttons

\* C14: every poll, of HubControls.pollGamepad and of the menu's
\* InputManager.pollGamepad, selects the device in the lowest-numbered
\* occupied slot of slots 0..3 and reports connected = true whenever one of
\* the four slots holds a device.
C14_PollSelectsLowestOccupiedSlot ==
  [][ /\ PollGamepad => SelectsLowest(gamepadState')
      /\ MenuPollGamepad => SelectsLowest(inputManager') ]_vars

\* C15: a HubControls.pollGamepad call that finds no device in any slot sets
\* gamepadState.connected to false and leaves gamepadState.axes,
\* gamepadState.buttons, prevGamepadButtons, the touch press map and the edge
\* cache unchanged.
C15_PollWithoutDeviceKeepsLastValues ==
  [][(PollGamepad /\ Occupied = {}) =>
       /\ gamepadState' = [gamepadState EXCEPT !.connected = FALSE]
       /\ UNCHANGED << prevGamepadButtons, state, prevEdge >>]_vars

\* The gamepad was removed with a held and its gamepaddisconnected event is
\* still to be dispatched, so it is a poll that has set connected to false;
\* the button a of the last poll with a device is still in gamepadState.
C15_Witness ==
  /\ Occupied = {}
  /\ events = << "gamepaddisconnected" >>
  /\ ~gamepadState.connected
  /\ gamepadState.buttons = {"a"}

(***************************************************************************)
(* Configuration and lifecycle.                                            *)
(***************************************************************************)
\* The deadzone the page asked for: options.deadzone, 0.15 without it.
RequestedDeadzone == IF initOptions = Null THEN 15 ELSE The(initOptions)

\* C16: after init({deadzone: d}) the threshold beyond which a stick axis
\* overrides the digital direction in getState() is d, and 0.15 after an init
\* without the option.
C16_InitDeadzoneIsThreshold ==
  (snapshot = Some(GetState) /\ gamepadState.connected) =>
    Returned.direction.x =
      IF Abs(StickX) > RequestedDeadzone
           /\ gamepadState.buttons \cap {"left", "right"} = {}
        THEN Clamp(StickX)
        ELSE DigitalAxis("left", "right")

\* destroy() has run and init has not run since.
Destroyed == ~enabled /\ pollLoops > 0

\* C17: destroy() removes the DOM nodes created by init (the controls
\* container and the style element) and every listener registered by init,
\* so that while HubControls stays destroyed no platform event changes its
\* state.
C17_DestroyRemovesListenersAndNodes ==
  [][ /\ Destroy => (~container' /\ ~styles')
      /\ (Destroyed /\ Destroyed') =>
           UNCHANGED << state, gamepadState, prevGamepadButtons >> ]_vars

\* C18: on a device without touch capability init creates no DOM node
\* (no container, no style element) and registers no touch handler, so the
\* touch press map stays all false and getState() is what the gamepad state
\* alone gives; enabled is true after init.
C18_NoTouchNoControls ==
  (pollLoops > 0 /\ ~isTouch) =>
    /\ enabled
    /\ ~container
    /\ ~styles
    /\ state = {}
    /\ GetState = GetStateOf(gamepadState, {}, FALSE)

\* A desktop with a gamepad whose a is held: getState() reports it.
C18_Witness ==
  /\ pollLoops > 0 /\ ~isTouch /\ enabled /\ ~container
  /\ gamepadState.connected
  /\ GetState.buttons = {"a"}
  /\ GetState.source = [touch |-> FALSE, gamepad |-> TRUE]

(***************************************************************************)
(* HubControls as a passive provider.                                      *)
(***************************************************************************)
\* A step of an operation of HubControls that runs after init.
HubOperation ==
  \/ \E t \in TouchNames : TouchStart(t) \/ TouchEnd(t) \/ TouchCancel(t)
  \/ PollGamepad
  \/ GetStateCall
  \/ \E b \in Buttons : JustPressedCall(b) \/ JustReleasedCall(b)
  \/ \E d \in Dirs : JustPressedDirectionCall(d)

C20_SnapshotWellFormed ==
  LET s == GetState IN
    /\ Buttons \subseteq StateButtons
    /\ s.buttons \subseteq StateButtons
    /\ s.direction \in [x : -100..100, y : -100..100]
    /\ (s.gamepad # Null) <=> s.source.gamepad
    /\ s.source.gamepad <=> hasGamepad

\* getState() has just returned with the gamepad gone: the gamepad field is
\* null and source.gamepad false although the state of the last poll, with a
\* held, is still there and still reported in buttons.
C20_Witness ==
  /\ snapshot = Some(GetState)
  /\ ~hasGamepad /\ gamepadState.buttons = {"a"}
  /\ Returned.gamepad = Null /\ ~Returned.source.gamepad
  /\ "a" \in Returned.buttons

(***************************************************************************)
(* Analog values.                                                          *)
(***************************************************************************)
\* The axes the latest poll with a device read, after this step.
PolledAxes ==
  IF PollGamepad /\ FirstPad # Null THEN The(FirstPad).axes
  ELSE gamepadState.axes

FrameEdges == {a \in MenuActions : MenuJustPressed(MenuPolled, a)}

\* selectCooldown as update(dt) leaves it before it looks at the input, in a
\* frame that starts now, elapsed after the previous one.
Cooled(elapsed) ==
  IF hubScene.selectCooldown > 0
    THEN hubScene.selectCooldown - FrameDt(elapsed)
    ELSE hubScene.selectCooldown

\* This step is a call of gameLoop.
IsFrame == \E elapsed \in FrameTimes : MenuFrame(elapsed)

LastIndex == Len(games) - 1

\* C22: HubScene.isTransitioning becomes true only in a frame in which
\* justPressed('confirm') is true while the scene is browsing; once it is
\* true it never becomes false again, and no later update() changes
\* selectedIndex or selectCooldown.
C22_TransitioningIsTerminal ==
  [][ /\ (~hubScene.isTransitioning /\ hubScene'.isTransitioning) =>
           (IsFrame /\ "confirm" \in FrameEdges)
      /\ hubScene.isTransitioning =>
           /\ hubScene'.isTransitioning
           /\ hubScene'.selectedIndex = hubScene.selectedIndex
           /\ hubScene'.selectCooldown = hubScene.selectCooldown
    ]_vars

\* The scene has been transitioning for a while, and its latest frame saw D
\* newly held with the cooldown over: the selection is still on the first
\* card.
C22_Witness ==
  /\ hubScene.isTransitioning
  /\ hubScene.transitionAlpha = 100
  /\ hubScene.selectCooldown <= 0
  /\ hubScene.selectedIndex = 0
  /\ sinceMove = Null
  /\ "right" \in menuPrev
  /\ "confirm" \notin menuPrev

\* C23: selectedIndex is always one of 0..games.length-1; a frame that acts
\* on a left or up edge with the selection at 0 moves it to games.length-1,
\* and one that acts on a right or down edge at games.length-1 moves it to 0.
C23_SelectionWrapsAround ==
  [][ /\ hubScene.selectedIndex \in 0..LastIndex
      /\ hubScene'.selectedIndex \in 0..LastIndex
      /\ \A elapsed \in FrameTimes :
           (/\ MenuFrame(elapsed)
            /\ ~hubScene.isTransitioning
            /\ Cooled(elapsed) <= 0) =>
             /\ (/\ FrameEdges \cap {"left", "up"} # {}
                 /\ FrameEdges \cap {"right", "down"} = {}
                 /\ hubScene.selectedIndex = 0) =>
                  hubScene'.selectedIndex = LastIndex
             /\ (/\ FrameEdges \cap {"right", "down"} # {}
                 /\ FrameEdges \cap {"left", "up"} = {}
                 /\ hubScene.selectedIndex = LastIndex) =>
                  hubScene'.selectedIndex = 0
    ]_vars

\* The latest frame changed the selection, D was not held in it, and the
\* selection is on the last card: the stick moved it there from the first.
C23_Witness ==
  /\ hubScene.selectedIndex = LastIndex
  /\ inputManager.axes[1] < -MenuDeadzone
  /\ sinceMove = Some(0)
  /\ "right" \notin menuPrev
  /\ "up" \notin menuPrev
  /\ keys = {}
  /\ ~hubScene.isTransitioning

\* The selection one step back and one step forth from index i.
StepBack(i) == (i - 1 + Len(games)) % Len(games)
StepForth(i) == (i + 1) % Len(games)

\* C24: under the main loop (input.update, hub.update, hub.render,
\* input.endFrame) a direction held over consecutive frames changes
\* selectedIndex by at most one step in total: every frame leaves in the
\* cache the actions held in it, the frame in which a direction is newly held
\* moves the selection by one step in its direction or not at all, and a
\* frame in which no direction is newly held leaves the selection alone.
C24_HeldDirectionMovesOnce ==
  [][\A elapsed \in FrameTimes :
       MenuFrame(elapsed) =>
         LET heldNow   == MenuPressed(MenuPolled)
             newlyHeld == (heldNow \ menuPrev)
                            \cap {"left", "up", "right", "down"}
         IN  /\ menuPrev' = heldNow
             /\ newlyHeld = {} =>
                  hubScene'.selectedIndex = hubScene.selectedIndex
             /\ (newlyHeld # {} /\ newlyHeld \subseteq {"left", "up"}) =>
                  hubScene'.selectedIndex \in
                    {hubScene.selectedIndex, StepBack(hubScene.selectedIndex)}
             /\ (newlyHeld # {} /\ newlyHeld \subseteq {"right", "down"}) =>
                  hubScene'.selectedIndex \in
                    {hubScene.selectedIndex, StepForth(hubScene.selectedIndex)}
    ]_vars

\* The stick has been held to the left since the one move that took the
\* selection to the last card, and the cooldown of that move is over.
C24_Witness ==
  /\ hubScene.selectedIndex = LastIndex
  /\ ~hubScene.isTransitioning
  /\ hubScene.selectCooldown <= 0
  /\ sinceMove = Some(SelectCooldown)
  /\ inputManager.axes[1] < -MenuDeadzone
  /\ The(gamepads[0]).axes[1] < -MenuDeadzone
  /\ menuPrev = {"left"}
  /\ keys = {}

\* C25: between two frames that change selectedIndex at least 0.2 s of
\* accumulated dt elapse, and since gameLoop caps dt at 0.1 s, selectedIndex
\* is never changed in two consecutive frames.
C25_MovesAreCooldownApart ==
  [][\A elapsed \in FrameTimes :
       (/\ MenuFrame(elapsed)
        /\ hubScene'.selectedIndex # hubScene.selectedIndex
        /\ sinceMove # Null) =>
          /\ The(sinceMove) + FrameDt(elapsed) >= SelectCooldown
          /\ The(sinceMove) # 0
    ]_vars

\* A second move, made by the frame in which the 0.2 s since the first one
\* were just over: 0.1 s had accumulated before it.
C25_Witness ==
  /\ hubScene.selectedIndex = 1
  /\ sinceMove = Some(0)
  /\ hubScene.selectCooldown = SelectCooldown
  /\ "right" \in menuPrev
  /\ inputManager.axes[1] < -MenuDeadzone
  /\ "up" \notin menuPrev
  /\ ~hubScene.isTransitioning

(***************************************************************************)
(* The menu: deployment dates.                                             *)
(***************************************************************************)
\* C26: if the deployment-date request rejects, every card keeps lastUpdate
\* = null, so formatDate gives "Loading..." for it and that is what render()
\* draws; the rejection is caught inside fetchDeploymentDates, which runs to
\* its end, and gameLoop keeps running update() and render().
C26_RejectedFetchKeepsPlaceholders ==
  fetchState.error = Some("rejected") =>
    /\ fetchState.at = "done"
    /\ \A i \in 1..Len(games) :
         /\ games[i].lastUpdate = Null
         /\ FormatDate(games[i].lastUpdate) = "Loading..."
    /\ rendered # Null =>
         \A i \in 1..Len(games) : The(rendered)[i] = "Loading..."
    /\ ENABLED MenuFrame(MaxDt)

\* The request has rejected, and frames have drawn the cards, taken the
\* confirm edge of Enter and faded the scene out.
C26_Witness ==
  /\ fetchState.error = Some("rejected")
  /\ rendered # Null
  /\ hubScene.isTransitioning
  /\ hubScene.transitionAlpha = 100
  /\ location # <<>>

\* The lastUpdate of the card with this id among the cards gs.
DateOf(gs, id) ==
  LET i == CHOOSE k \in 1..Len(gs) : gs[k].id = id IN gs[i].lastUpdate

\* C27: if fetchDeploymentDates fails for any reason (the request rejects,
\* the response is not 2xx, or processing the body throws, as with a missing
\* deployments array or a malformed entry in it), the games list is exactly
\* as before: same order and every lastUpdate unchanged; and when it
\* succeeds, a card whose entries have a missing or null lastUpdate keeps
\* its lastUpdate.
C27_FailedFetchLeavesGamesAlone ==
  [][(fetchState.at # "done" /\ fetchState'.at = "done") =>
       /\ fetchState'.error # Null => games' = games
       /\ \A data \in Bodies :
            (BodyResolves(data) /\ fetchState'.error = Null) =>
              \A k \in 1..Len(games) :
                (\A e \in 1..Len(The(data)) :
                   The(data)[e].id = games[k].id =>
                     The(data)[e].lastUpdate = Null) =>
                  DateOf(games', games[k].id) = games[k].lastUpdate
    ]_vars

(***************************************************************************)
(* The menu: the game loop statement by statement.                         *)
(***************************************************************************)
\* The justPressed calls of the running frame: what the call at position i
\* was asked and what it returned.
CallsMade == IF loopFrame = Null THEN <<>> ELSE The(loopFrame)

\* C31: under the main loop order a call of InputManager.justPressed leaves
\* the previous-state cache alone, and the cache changes in endFrame only,
\* which stores the actions pressed then; every call of a frame returns true
\* exactly when its action is pressed in the frame and was not pressed at
\* the previous frame's endFrame, however many calls came before it.
C31_JustPressedReadsOnly ==
  [][ /\ menuPrev' # menuPrev => LoopEndFrame
      /\ LoopEndFrame => menuPrev' = MenuPressed(inputManager)
      /\ \A action \in MenuActions :
           LoopJustPressed(action) => menuPrev' = menuPrev
      /\ \A i \in 1..Len(CallsMade') :
           CallsMade'[i][2] =
             /\ CallsMade'[i][1] \in MenuPressed(inputManager')
             /\ CallsMade'[i][1] \notin menuPrev'
    ]_vars

\* D has been held since before the previous frame's endFrame and Enter has
\* been pressed since: the frame has asked for confirm twice and got true
\* both times.
C31_Witness ==
  /\ loopFrame # Null
  /\ The(loopFrame) = << <<"confirm", TRUE>>, <<"confirm", TRUE>> >>
  /\ menuPrev = {"right"}
  /\ keys = {"KeyD", "Enter"}

(***************************************************************************)
(* The menu: a gamepad that is unplugged.                                  *)
(***************************************************************************)
\* The InputManager with the gamepad's axes and buttons at rest.
PadAtRest == [inputManager EXCEPT !.axes = <<0, 0, 0, 0>>, !.buttons = {}]

\* C32: while InputManager.gamepadState.connected is false, isPressed(action)
\* is for every action what the keyboard and the touch state alone make it,
\* also after the gamepad went away with a button held or the stick pushed.
C32_DisconnectedPadIsIgnored ==
  ~inputManager.connected =>
    \A action \in MenuActions :
      IsPressedOf(inputManager, keys, touchState, action)
        = IsPressedOf(PadAtRest, keys, touchState, action)

(***************************************************************************)
(* The menu: the selection while the deployment dates arrive.              *)
(***************************************************************************)
\* The id of the card the selection designates: games[selectedIndex].id.
Designated == games[hubScene.selectedIndex + 1].id

\* C33: the game the selection designates changes only in a frame that
\* moves selectedIndex; the deployment dates, whenever they arrive, leave
\* it as it is.
C33_DesignatedGameFollowsSelection ==
  [][ Designated' # Designated =>
        /\ MenuFrame(MaxDt)
        /\ hubScene'.selectedIndex # hubScene.selectedIndex
    ]_vars

(***************************************************************************)
(* The menu: the navigation of a launch.                                   *)
(***************************************************************************)
\* C34: a confirm edge while the scene is browsing makes HubScene request
\* one navigation, to the game the selection designated in the confirm
\* frame, and no second one, whatever is pressed later: the navigations
\* requested and the timers still to request one are never more than one,
\* and a navigation goes to the game of the launch.
C34_LaunchNavigatesOnce ==
  /\ Len(timers) + Len(location) <= 1
  /\ \A i \in 1..Len(location) : location[i] = location[1]

(***************************************************************************)
(* The serverless function.                                                *)
(***************************************************************************)
\* The reply that decides the entry of a project: that of the second
\* request when the first response was not ok, that of the first otherwise.
Deciding(u) == IF u.primary.kind = "notOk" THEN The(u.fallback) ELSE u.primary

\* C35: with VERCEL_API_TOKEN set, whatever the upstream API does with the
\* requests of each project, the handler sends one response, with status
\* 200 and one entry per project of PROJECTS in that order; the entry of a
\* project has the createdAt of its deployment when its lookup returned
\* one, and lastUpdate = null when its lookup failed (fetch rejected, not ok
\* on both requests, body not JSON) or returned no deployment, whatever
\* happened to the other projects.
C35_OneEntryPerProject ==
  (token /\ responses # <<>>) =>
    /\ Len(responses) = 1
    /\ responses[1].status = 200
    /\ responses[1].deployments # Null
    /\ LET deployments == The(responses[1].deployments) IN
         /\ Len(deployments) = Len(PROJECTS)
         /\ \A i \in 1..Len(PROJECTS) :
              /\ deployments[i].id = PROJECTS[i].id
              /\ Deciding(upstream[i]).kind \in
                   {"rejects", "notOk", "notJson", "noList", "empty"} =>
                     deployments[i].lastUpdate = Null
              /\ Deciding(upstream[i]).kind = "dated" =>
                   /\ deployments[i].lastUpdate # Null
                   /\ deployments[i].lastUpdate
                        = Deciding(upstream[i]).createdAt

\* The request for the first project was rejected and the body of the
\* first answer for the second was not ok, its second answer carried a
\* deployment: the response has null for the first and the date for the
\* second.
C35_Witness ==
  /\ token
  /\ responses # <<>>
  /\ upstream[1].primary.kind = "rejects"
  /\ upstream[2].primary.kind = "notOk"
  /\ Deciding(upstream[2]).kind = "dated"
  /\ responses[1].status = 200
  /\ The(responses[1].deployments)[1].lastUpdate = Null
  /\ The(responses[1].deployments)[2].lastUpdate # Null

(***************************************************************************)
(* HubControls: a gamepad that comes back.                                 *)
(***************************************************************************)
\* C36: when getState() reports source.gamepad = true, the gamepad values it
\* merges were read by a poll made since gamepadState.connected last turned
\* from false to true; in particular a step after which getState() reports
\* the gamepad again, with a button held, is a poll that read the button
\* from the device, and not a step that brings back what was polled before
\* the disconnection.
C36_ReconnectedPadIsPolledFirst ==
  [][ (/\ ~GetState.source.gamepad
       /\ GetState'.source.gamepad
       /\ The(GetState'.gamepad).buttons # {}) => PollGamepad
    ]_vars

(***************************************************************************)
(* HubControls: init and destroy, again and again.                         *)
(***************************************************************************)
\* C37: whatever init() and destroy() calls a page on a touch device has
\* made, no more than one polling loop of startPolling runs, one run of
\* pollGamepad per animation frame (and the document holds no more than one
\* controls container, the one HubControls.container refers to).
C37_OnePollingLoop == isTouch => pollLoops <= 1

(***************************************************************************)
(* HubControls: several fingers on one control.                            *)
(***************************************************************************)
\* C38: the pressed state of a touch control is true exactly while a touch
\* that started on the control has neither ended nor been cancelled, also
\* when a second touch started on it before the first one ended.
C38_PressedWhileTouched ==
  touchPoints # Null =>
    \A t \in FingerControls : (t \in state) <=> (The(touchPoints)[t] > 0)

(***************************************************************************)
(* HubControls: presses shorter than a frame.                              *)
(***************************************************************************)
\* The consumer's latest frame got true from justPressed(b).
Reported(b) == results # <<>> /\ b \in results[1]

C4_AdapterJustPressedOnlyOnFirstFrame ==
  (adapter \in {"phaser", "three"} /\ fired # Null) =>
    \A n \in InputNames : n \in The(fired) => n \notin inputBefore

\* C6: with HubControls initialised, no gamepad connected, no touch
\* capability and only key A held, getInput().direction.x is -1 for every
\* adapter, and hasGamepad() and hasTouch() are false.
C6_KeyboardLeftGivesDirection ==
  (enabled /\ ~gamepadState.connected /\ ~isTouch /\ keys = {"KeyA"}) =>
    /\ GetInput(adapter).direction.x = -100
    /\ ~hasGamepad
    /\ ~hasTouch

\* C28: for every adapter, getInput() exposes the aliases of the integration
\* guide: jump, confirm and interact are the value of a, cancel is the value
\* of b and pause is the value of start.
C28_AliasesFollowButtons ==
  input # Null =>
    LET on == The(input).on IN
      /\ \A alias \in {"jump", "confirm", "interact"} :
           alias \in on <=> "a" \in on
      /\ "cancel" \in on <=> "b" \in on
      /\ "pause" \in on <=> "start" \in on

\* The direction of getState() as the adapter reads it, neutral without hub.
HubDirection == IF Hub = Null THEN [x |-> 0, y |-> 0] ELSE The(Hub).direction

\* The keyboard direction of HubThreeAdapter.
KeyDirection ==
  [x |-> (IF Down({"KeyD", "ArrowRight"}) THEN 100 ELSE 0)
           - (IF Down({"KeyA", "ArrowLeft"}) THEN 100 ELSE 0),
   y |-> (IF Down({"KeyS", "ArrowDown"}) THEN 100 ELSE 0)
           - (IF Down({"KeyW", "ArrowUp"}) THEN 100 ELSE 0)]

\* C29: HubThreeAdapter.getInput merges the keyboard direction with the hub
\* direction per axis: an axis on which the hub direction is beyond 0.1
\* takes the hub's value and every other axis the keyboard's, so key A held
\* with the hub direction {x: 0, y: 0.5} gives direction.x = -1.
C29_ThreeMergesPerAxis ==
  (adapter = "three" /\ input # Null) =>
    /\ The(input).direction.x =
         IF Abs(HubDirection.x) > 10 THEN HubDirection.x ELSE KeyDirection.x
    /\ The(input).direction.y =
         IF Abs(HubDirection.y) > 10 THEN HubDirection.y ELSE KeyDirection.y

\* C30: HubPhaserAdapter.getInput merges keyboard and hub with OR: a is hub
\* a or the confirm key, b is hub b or the cancel key, start is hub start or
\* the start key (I), select is hub select or the select key (L), and each
\* direction is the hub direction beyond the threshold or its bound keys.
C30_PhaserMergesKeysWithOr ==
  (adapter = "phaser" /\ input # Null) =>
    LET on == The(input).on
        hubOn(n) == Hub # Null /\ n \in The(Hub).buttons
    IN  /\ "a" \in on <=> (hubOn("a") \/ Down({"KeyJ"}))
        /\ "b" \in on <=> (hubOn("b") \/ Down({"KeyK"}))
        /\ "start" \in on <=> (hubOn("start") \/ Down({"KeyI"}))
        /\ "select" \in on <=> (hubOn("select") \/ Down({"KeyL"}))
        /\ "left" \in on <=>
             ((Hub # Null /\ HubDirection.x < -30)
                \/ Down({"KeyA", "ArrowLeft"}))
        /\ "right" \in on <=>
             ((Hub # Null /\ HubDirection.x > 30)
                \/ Down({"KeyD", "ArrowRight"}))
        /\ "up" \in on <=>
             ((Hub # Null /\ HubDirection.y < -30)
                \/ Down({"KeyW", "ArrowUp"}))
        /\ "down" \in on <=>
             ((Hub # Null /\ HubDirection.y > 30)
                \/ Down({"KeyS", "ArrowDown"}))

=============================================================================
